---- MODULE Spec2Model ----
(***************************************************************************)
(* A model of the MerossIot protocol engine: the request/acknowledgement   *)
(* correlation layer of MerossManager (async_execute_cmd, _on_message and  *)
(* the asyncio futures it resolves), the signed envelope built by          *)
(* _build_mqtt_message, and the push dispatch into the device registry.    *)
(***************************************************************************)
EXTENDS Integers, Sequences, FiniteSets, TLC

(***************************************************************************)
(* Bounds of the model.                                                    *)
(***************************************************************************)
\* number of async_execute_cmd invocations followed
MaxCalls == 2
\* number of inbound frames delivered to _on_message
MaxFrames == 2
\* number of async_execute_cmd invocations followed under fairness
MaxFairCalls == 1

Calls == 1..MaxCalls
\* the invocations made where the loop is followed under fairness
FairCalls == 1..MaxFairCalls

(***************************************************************************)
(* Python values.  A value is a record [t, v]: t is the Python type and v  *)
(* its content; a dict is the sequence of its <<key, value>> items.        *)
(***************************************************************************)
PyNone == [t |-> "none", v |-> 0]
PyInt(n) == [t |-> "int", v |-> n]
PyStr(s) == [t |-> "str", v |-> s]
PyList(s) == [t |-> "list", v |-> s]
PyTuple(s) == [t |-> "tuple", v |-> s]
PyDict(items) == [t |-> "dict", v |-> items]
EmptyDict == PyDict(<<>>)

\* dict.get(key): the value stored under key, None when the key is absent
DictGet(d, key) ==
    IF d.t = "dict" /\ \E i \in 1..Len(d.v) : d.v[i][1] = key
    THEN d.v[CHOOSE i \in 1..Len(d.v) : d.v[i][1] = key][2]
    ELSE PyNone

\* hashlib.md5(<parts joined>).hexdigest().lower(): the digest is modelled as
\* a collision-free constructor over the pieces of the hashed string
Md5Hex(parts) == [t |-> "md5hex", v |-> parts]

(***************************************************************************)
(* Credentials and topics of one manager.                                  *)
(***************************************************************************)
CloudKey == "key"
ForeignKey == "tampered"
ClientResponseTopic == PyStr("/app/uid-appid/subscribe")
ClientUserTopic == PyStr("/app/uid/subscribe")
DeviceRequestTopic(uuid) == [t |-> "devtopic", v |-> uuid]
device_uuid_from_push_notification(from_topic) ==
    IF from_topic.t = "devtopic" THEN from_topic.v ELSE "unknown"

\* Namespace enum members and their .value
NamespaceValues ==
    [SYSTEM_ALL |-> "Appliance.System.All",
     SYSTEM_ABILITY |-> "Appliance.System.Ability",
     SYSTEM_ONLINE |-> "Appliance.System.Online",
     GARAGE_DOOR_STATE |-> "Appliance.GarageDoor.State",
     HUB_ONLINE |-> "Appliance.Hub.Online",
     HUB_TOGGLEX |-> "Appliance.Hub.ToggleX",
     HUB_MTS100_ALL |-> "Appliance.Hub.Mts100.All",
     HUB_MTS100_MODE |-> "Appliance.Hub.Mts100.Mode",
     HUB_MTS100_TEMPERATURE |-> "Appliance.Hub.Mts100.Temperature",
     HUB_SENSOR_ALL |-> "Appliance.Hub.Sensor.All",
     HUB_SENSOR_TEMPHUM |-> "Appliance.Hub.Sensor.TempHum",
     HUB_SENSOR_ALERT |-> "Appliance.Hub.Sensor.Alert"]
Namespaces == DOMAIN NamespaceValues
NamespaceValue(ns) == PyStr(NamespaceValues[ns])

\* the 16 character strings random.SystemRandom may produce
RandomStrings == {"R1", "R2"}
\* int(round(time.time()))
Timestamps == {1, 2}

(***************************************************************************)
(* json.dumps / json.loads.  The JSON text is modelled by the document it  *)
(* denotes: arrays, objects whose keys are strings, strings and numbers.   *)
(***************************************************************************)
\* json.dumps coerces a dict key to a string: str(1) is the numeral "1"
JsonKey(k) == IF k.t = "int" THEN [t |-> "jstr", v |-> <<"numeral", k.v>>]
              ELSE [t |-> "jstr", v |-> <<k.t, k.v>>]

RECURSIVE JsonDumps(_)
JsonDumps(x) ==
    CASE x.t = "int" -> [t |-> "jnum", v |-> x.v]
      [] x.t \in {"str", "numeral", "md5hex", "devtopic"} ->
            [t |-> "jstr", v |-> <<x.t, x.v>>]
      [] x.t \in {"list", "tuple"} ->
            [t |-> "jarr", v |-> [i \in 1..Len(x.v) |-> JsonDumps(x.v[i])]]
      [] x.t = "dict" ->
            [t |-> "jobj",
             v |-> [i \in 1..Len(x.v) |-> <<JsonKey(x.v[i][1]), JsonDumps(x.v[i][2])>>]]
      [] x.t = "none" -> [t |-> "jnull", v |-> 0]

RECURSIVE JsonLoads(_)
JsonLoads(j) ==
    CASE j.t = "jnum" -> PyInt(j.v)
      [] j.t = "jstr" -> [t |-> j.v[1], v |-> j.v[2]]
      [] j.t = "jarr" -> PyList([i \in 1..Len(j.v) |-> JsonLoads(j.v[i])])
      [] j.t = "jobj" ->
            PyDict([i \in 1..Len(j.v) |-> <<JsonLoads(j.v[i][1]), JsonLoads(j.v[i][2])>>])
      [] j.t = "jnull" -> PyNone

(***************************************************************************)
(* Message codec: MerossManager._build_mqtt_message and the verification   *)
(* of inbound headers.                                                     *)
(***************************************************************************)
Envelope(from, messageId, method, namespace, sign, timestamp, payload) ==
    PyDict(<< <<PyStr("header"),
                PyDict(<< <<PyStr("from"), from>>,
                          <<PyStr("messageId"), messageId>>,
                          <<PyStr("method"), PyStr(method)>>,
                          <<PyStr("namespace"), namespace>>,
                          <<PyStr("payloadVersion"), PyInt(1)>>,
                          <<PyStr("sign"), sign>>,
                          <<PyStr("timestamp"), PyInt(timestamp)>> >>)>>,
              <<PyStr("payload"), payload>> >>)

\* md5 of the 16 random characters
MessageIdOf(randomstring) == Md5Hex(<<PyStr(randomstring)>>)

\* "%s%s%s" % (messageId, key, timestamp), hashed
Signature(messageId, key, timestamp) == Md5Hex(<<messageId, PyStr(key), timestamp>>)

\* a builder that leaves the key out of the hashed string
build_mqtt_message_unkeyed(method, namespace, payload, randomstring, timestamp) ==
    IF namespace \notin Namespaces
    THEN [raised |-> "AttributeError", strdata |-> PyNone, messageId |-> PyNone]
    ELSE LET messageId == MessageIdOf(randomstring)
             signature == Md5Hex(<<messageId, PyInt(timestamp)>>)
             data == Envelope(ClientResponseTopic, messageId, method,
                              NamespaceValue(namespace), signature, timestamp, payload)
         IN [raised |-> "no", strdata |-> JsonDumps(data), messageId |-> messageId]

\* namespace is a Namespace member, or "None" when the caller has none to give:
\* namespace.value then raises AttributeError and no envelope is built
build_mqtt_message(method, namespace, payload, randomstring, timestamp) ==
    IF namespace \notin Namespaces
    THEN [raised |-> "AttributeError", strdata |-> PyNone, messageId |-> PyNone]
    ELSE LET messageId == MessageIdOf(randomstring)
             signature == Signature(messageId, CloudKey, PyInt(timestamp))
             data == Envelope(ClientResponseTopic, messageId, method,
                              NamespaceValue(namespace), signature, timestamp, payload)
         IN [raised |-> "no", strdata |-> JsonDumps(data), messageId |-> messageId]

verify_message_signature(header, key) ==
    Signature(DictGet(header, PyStr("messageId")), key,
              DictGet(header, PyStr("timestamp")))
        = DictGet(header, PyStr("sign"))

MsgIds == {MessageIdOf(r) : r \in RandomStrings}

(***************************************************************************)
(* State of one MerossManager.                                             *)
(***************************************************************************)
VARIABLES
    initialized,               \* MerossManager.__initialized
    connected,                 \* self._mqtt_client.is_connected()
    pending_messages_futures,  \* self._pending_messages_futures: messageId -> future
    futures,                   \* the asyncio futures created by async_execute_cmd
    call,                      \* the coroutines running async_execute_cmd
    ncalls,                    \* how many of them were started
    loop_ready,                \* the callbacks the event loop is about to run
    nframes,                   \* inbound frames delivered so far
    loop_exceptions,           \* exceptions raised by callbacks and tasks inside the event loop
    transport_exceptions,      \* exceptions escaping _on_message in the mqtt thread
    logged,                    \* what was written to the log
    registry,                  \* DeviceRegistry._devices_by_internal_id
    door_open,                 \* GarageOpenerMixin._door_open_state_by_channel
    error_acked,               \* history: the calls an ERROR frame arrived for while they waited
    handshake,                 \* async_init and the connect-then-subscribe handshake
    api,                       \* the last call into DeviceRegistry and its outcome
    codec,                     \* an envelope built by _build_mqtt_message and read back
    objects,                   \* the fields of the device objects built so far
    sub_devices,               \* HubDevice._sub_devices: subdevice_id -> sub-device
    sent,                      \* what self._mqtt_client.publish was called with
    coroutines,                \* the device coroutines waiting on a command
    discovery                  \* async_device_discovery and the tasks it creates

\* the state of the devices
device_vars == <<objects, sub_devices, sent, coroutines, discovery>>

vars == <<initialized, connected, pending_messages_futures, futures, call, ncalls,
          loop_ready, nframes, loop_exceptions, transport_exceptions, logged,
          registry, door_open, error_acked, handshake, api, codec, device_vars>>

engine_vars == <<initialized, connected, pending_messages_futures, futures, call,
                 ncalls, loop_ready, nframes, loop_exceptions, transport_exceptions,
                 logged, registry, door_open, error_acked, handshake, api, device_vars>>

\* a future of the table is named by the call that created it; 0 is None
NoFuture == 0

\* the devices of the account (HttpDeviceInfo.uuid)
Uuids == {"U1", "U2"}
\* those of them discovery enrolls; the other stays unknown to the registry
BoundUuids == {"U1"}
InternalId(uuid) == <<"#BASE:", uuid>>
\* channel indexes a garage opener may report
Channels == {0, 1}

IdleCall == [pc |-> "idle", mid |-> PyNone, result |-> PyNone]

\* async_init not called, the transport down, the Event not set, the looper
\* thread not started; auto_reconnect is the constructor's default.  rc is the
\* reason of the last disconnect; pending_at_drop and queued_at_drop are
\* history: the calls that waited when the handler stopped the looper, and
\* those of them whose acknowledgement had already been handed to the loop.
\* pc is the position of the first call of async_init and others those of the
\* calls made after it; woken tells that Event.set has released the first
\* call from its wait; connects counts the calls of self._mqtt_client.connect
IdleHandshake == [pc |-> "idle", subscribe_sent |-> FALSE, suback |-> FALSE,
                  event |-> FALSE, looping |-> FALSE, auto_reconnect |-> TRUE,
                  rc |-> "none", drops |-> 0, pending_at_drop |-> {},
                  queued_at_drop |-> {}, woken |-> FALSE, others |-> <<>>,
                  connects |-> 0]
\* no call into the registry yet
NoApiCall == [op |-> "none", arg |-> <<"none", PyNone>>, raised |-> "no",
              result |-> <<"none", PyNone>>]

ManagerFields ==
    /\ initialized = FALSE
    /\ pending_messages_futures = [m \in MsgIds |-> NoFuture]
    /\ futures = [c \in Calls |-> [state |-> "NONE", value |-> PyNone]]
    /\ call = [c \in Calls |-> IdleCall]
    /\ ncalls = 0
    /\ loop_ready = <<>>
    /\ nframes = 0
    /\ loop_exceptions = {}
    /\ transport_exceptions = {}
    /\ logged = {}
    /\ door_open = [u \in Uuids |-> [ch \in Channels |-> "None"]]
    /\ error_acked = {}
    /\ api = NoApiCall

\* MerossManager.__init__ with the default auto_reconnect
ManagerInit ==
    /\ ManagerFields
    /\ connected = FALSE
    /\ handshake = IdleHandshake

\* no device object built, nothing published, no coroutine of a device running
NoDevices ==
    /\ objects = <<>>
    /\ sub_devices = <<>>
    /\ sent = <<>>
    /\ coroutines = <<>>
    /\ discovery = <<>>

(***************************************************************************)
(* Connection life cycle.                                                  *)
(***************************************************************************)
\* async_init up to its await: connect, start the looper, wait on the Event
AsyncInit ==
    /\ handshake.pc = "idle"
    /\ IF initialized
       THEN handshake' = [handshake EXCEPT !.pc = "RuntimeError"]
       ELSE handshake' = [handshake EXCEPT !.pc = "waiting", !.looping = TRUE,
                                           !.connects = @ + 1]
    /\ UNCHANGED <<initialized, connected, pending_messages_futures, futures, call,
                   ncalls, loop_ready, nframes, loop_exceptions, transport_exceptions,
                   logged, registry, door_open, error_acked, api, codec, device_vars>>

\* _on_connect, in the mqtt thread: the transport is connected
\* (is_connected() turns true) and the subscription is requested
OnConnect ==
    /\ handshake.pc = "waiting"
    /\ ~connected
    /\ connected' = TRUE
    /\ handshake' = [handshake EXCEPT !.subscribe_sent = TRUE]
    /\ UNCHANGED <<initialized, pending_messages_futures, futures, call, ncalls,
                   loop_ready, nframes, loop_exceptions, transport_exceptions, logged,
                   registry, door_open, error_acked, api, codec, device_vars>>

\* _on_subscribe, in the mqtt thread: the subscription acknowledgement is
\* observed and Event.set is handed to the loop
OnSubscribe ==
    /\ handshake.subscribe_sent
    /\ ~handshake.suback
    /\ handshake' = [handshake EXCEPT !.suback = TRUE]
    /\ loop_ready' = Append(loop_ready, [op |-> "event_set"])
    /\ UNCHANGED <<initialized, connected, pending_messages_futures, futures, call,
                   ncalls, nframes, loop_exceptions, transport_exceptions, logged,
                   registry, door_open, error_acked, api, codec, device_vars>>

\* an async_init that does not wait for the Event
AsyncInitReadyUnawaited ==
    /\ handshake.pc = "waiting"
    /\ handshake' = [handshake EXCEPT !.pc = "done", !.event = FALSE]
    /\ initialized' = TRUE
    /\ UNCHANGED <<connected, pending_messages_futures, futures, call, ncalls,
                   loop_ready, nframes, loop_exceptions, transport_exceptions, logged,
                   registry, door_open, error_acked, api, codec, device_vars>>

\* async_init after its await: Event.set has released the wait, the Event is
\* cleared and the manager is marked initialized
AsyncInitReady ==
    /\ handshake.pc = "waiting"
    /\ handshake.woken
    /\ handshake' = [handshake EXCEPT !.pc = "done", !.event = FALSE, !.woken = FALSE]
    /\ initialized' = TRUE
    /\ UNCHANGED <<connected, pending_messages_futures, futures, call, ncalls,
                   loop_ready, nframes, loop_exceptions, transport_exceptions, logged,
                   registry, door_open, error_acked, api, codec, device_vars>>

(***************************************************************************)
(* MerossManager.async_execute_cmd up to its await.                        *)
(***************************************************************************)
\* self._pending_messages_futures[message_id] = fut
RegisterFuture(table, message_id, fut) == [table EXCEPT ![message_id] = fut]

\* async_execute_cmd as far as its await, and _async_send_and_wait_ack as far
\* as its own: the connection is checked, the message is built (which raises
\* when the namespace is None), the future is registered and the message is
\* published on the topic of the destination device.  The published message
\* is kept by what a device reads of it.  caller_logged is what the calling
\* coroutine wrote to the log before it made the call.
async_execute_cmd(c, destination_device_uuid, method, namespace, payload, randomstring, timestamp, caller_logged) ==
    /\ c = ncalls + 1
    /\ c \in Calls
    /\ ncalls' = c
    /\ IF ~connected
       THEN /\ call' = [call EXCEPT ![c].pc = "UnconnectedError"]
            /\ logged' = logged \cup caller_logged \cup {"NotConnected"}
            /\ UNCHANGED <<pending_messages_futures, futures, sent>>
       ELSE LET built == build_mqtt_message(method, namespace, payload,
                                            randomstring, timestamp)
            IN IF built.raised # "no"
               THEN /\ call' = [call EXCEPT ![c].pc = built.raised]
                    /\ logged' = logged \cup caller_logged
                    /\ UNCHANGED <<pending_messages_futures, futures, sent>>
               ELSE /\ futures' = [futures EXCEPT ![c] = [state |-> "PENDING", value |-> PyNone]]
                    /\ pending_messages_futures' =
                           RegisterFuture(pending_messages_futures, built.messageId, c)
                    /\ call' = [call EXCEPT ![c].pc = "waiting", ![c].mid = built.messageId]
                    /\ sent' = Append(sent, [topic |-> DeviceRequestTopic(destination_device_uuid),
                                             messageId |-> built.messageId,
                                             method |-> method, namespace |-> namespace,
                                             payload |-> payload])
                    /\ logged' = logged \cup caller_logged

\* a command issued by the program itself
ExecuteCmd(c, method, namespace, payload, randomstring, timestamp) ==
    /\ async_execute_cmd(c, "U1", method, namespace, payload, randomstring, timestamp, {})
    /\ UNCHANGED <<initialized, connected, loop_ready, nframes, loop_exceptions,
                   transport_exceptions, registry, door_open, error_acked, handshake,
                   api, codec, objects, sub_devices, coroutines, discovery>>

AsyncExecuteCmd ==
    \E c \in Calls, r \in RandomStrings, ts \in Timestamps :
        ExecuteCmd(c, "GET", "SYSTEM_ABILITY", EmptyDict, r, ts)

(***************************************************************************)
(* MerossManager._async_send_and_wait_ack: asyncio.wait_for on the future. *)
(***************************************************************************)
\* a callback of the loop that will resolve future c
ResolutionQueued(c) ==
    \E i \in 1..Len(loop_ready) :
        loop_ready[i].op \in {"set_result", "set_exception"} /\ loop_ready[i].fut = c

\* a return of the whole response instead of its payload
CommandResultWholeResponse(response) == response

\* return response.get('payload')
CommandResult(response) == DictGet(response, PyStr("payload"))

\* the future is done: wait_for hands its outcome to async_execute_cmd, which
\* returns the payload or lets the exception through
wait_for_outcome(c) ==
    /\ call[c].pc = "waiting"
    /\ futures[c].state \in {"RESULT", "EXCEPTION"}
    /\ call' = IF futures[c].state = "RESULT"
               THEN [call EXCEPT ![c].pc = "returned",
                                 ![c].result = CommandResult(futures[c].value)]
               ELSE [call EXCEPT ![c].pc = "CommandError",
                                 ![c].result = futures[c].value]
    /\ UNCHANGED <<futures, logged>>

\* the coroutine that called async_execute_cmd is the program's own
Resume(c) ==
    /\ wait_for_outcome(c)
    /\ UNCHANGED <<initialized, connected, pending_messages_futures, ncalls,
                   loop_ready, nframes, loop_exceptions, transport_exceptions,
                   registry, door_open, error_acked, handshake, api, codec, device_vars>>

\* a wait whose TimeoutError is not converted
TimeoutUnconverted(c) ==
    /\ call[c].pc = "waiting"
    /\ futures[c].state = "PENDING"
    /\ ~ResolutionQueued(c)
    /\ futures' = [futures EXCEPT ![c].state = "CANCELLED"]
    /\ call' = [call EXCEPT ![c].pc = "TimeoutError"]
    /\ UNCHANGED <<initialized, connected, pending_messages_futures, ncalls, loop_ready,
                   nframes, loop_exceptions, transport_exceptions, logged, registry,
                   door_open, error_acked, handshake, api, codec, device_vars>>

\* the timeout elapses first: wait_for cancels the future and raises
\* TimeoutError, which becomes CommandTimeoutError.  Callbacks queued before the
\* timer was due run before it (the loop's ready queue is first in, first out).
wait_for_timeout(c) ==
    /\ call[c].pc = "waiting"
    /\ futures[c].state = "PENDING"
    /\ ~ResolutionQueued(c)
    /\ futures' = [futures EXCEPT ![c].state = "CANCELLED"]
    /\ call' = [call EXCEPT ![c].pc = "CommandTimeoutError"]
    /\ logged' = logged \cup {"Timeout"}

Timeout(c) ==
    /\ wait_for_timeout(c)
    /\ UNCHANGED <<initialized, connected, pending_messages_futures, ncalls, loop_ready,
                   nframes, loop_exceptions, transport_exceptions, registry, door_open,
                   error_acked, handshake, api, codec, device_vars>>

(***************************************************************************)
(* Inbound frames.                                                         *)
(***************************************************************************)
AckPayloads == {EmptyDict, PyDict(<< <<PyStr("ability"), EmptyDict>> >>)}
DoorState(channel, open) ==
    PyDict(<< <<PyStr("state"),
                PyList(<< PyDict(<< <<PyStr("channel"), PyInt(channel)>>,
                                    <<PyStr("open"), PyInt(open)>> >>) >>)>> >>)
PushPayloads == {DoorState(0, 1), DoorState(0, 0)}
\* a door state that lacks the field 'open'
MalformedPushPayloads ==
    {PyDict(<< <<PyStr("state"),
                 PyList(<< PyDict(<< <<PyStr("channel"), PyInt(0)>> >>) >>)>> >>)}

\* a frame as a device would send it: signed with the account's key, at time 1
DeviceFrame(topic, uuid, randomstring, method, namespace, payload) ==
    [topic |-> topic,
     message |-> Envelope(DeviceRequestTopic(uuid), MessageIdOf(randomstring), method,
                          NamespaceValue(namespace),
                          Signature(MessageIdOf(randomstring), CloudKey, PyInt(1)),
                          1, payload)]

\* the same frame with its signature replaced by one made without the key
Tampered(frame) ==
    LET header == DictGet(frame.message, PyStr("header"))
        forged == Signature(DictGet(header, PyStr("messageId")), ForeignKey,
                            DictGet(header, PyStr("timestamp")))
    IN [frame EXCEPT !.message.v[1][2].v[6][2] = forged]

\* the same frame delivered on the other subscribed topic
Misrouted(frame) ==
    [frame EXCEPT !.topic = IF @ = ClientResponseTopic THEN ClientUserTopic
                            ELSE ClientResponseTopic]

\* acknowledgements of commands, on the client response topic
AckFrames ==
    {DeviceFrame(ClientResponseTopic, "U1", r, mp[1], "SYSTEM_ABILITY", mp[2]) :
        r \in RandomStrings,
        mp \in ({"SETACK"} \X AckPayloads) \cup {<<"GETACK", EmptyDict>>,
                                                 <<"ERROR", EmptyDict>>}}
\* push notifications of devices, on the user topic
PushFrames ==
    {DeviceFrame(ClientUserTopic, u, "R1", "PUSH", "GARAGE_DOOR_STATE", p) :
        u \in Uuids, p \in PushPayloads}
\* push notifications whose payload is not what the device expects
MalformedPushFrames ==
    {DeviceFrame(ClientUserTopic, "U1", "R1", "PUSH", "GARAGE_DOOR_STATE", p) :
        p \in MalformedPushPayloads}
\* a command as a device receives it (case 1), seen on the user topic
CommandFrames ==
    {DeviceFrame(ClientUserTopic, "U1", "R1", "SET", "GARAGE_DOOR_STATE", DoorState(0, 1))}
\* the frames that are also delivered forged and on the wrong topic: those of
\* one device under one request identifier (the others differ in these names only)
ProbeFrames ==
    {f \in AckFrames \cup PushFrames :
        /\ DictGet(DictGet(f.message, PyStr("header")), PyStr("messageId"))
              = MessageIdOf("R1")
        /\ DictGet(DictGet(f.message, PyStr("header")), PyStr("from"))
              = DeviceRequestTopic("U1")}
\* every frame the broker may deliver
Frames ==
    LET good == AckFrames \cup PushFrames
    IN good \cup {Tampered(f) : f \in ProbeFrames}
            \cup {Misrouted(f) : f \in ProbeFrames} \cup CommandFrames
            \cup MalformedPushFrames

Header(message) == DictGet(message, PyStr("header"))
Method(message) == DictGet(Header(message), PyStr("method")).v
MessageId(message) == DictGet(Header(message), PyStr("messageId"))

\* a router that lets every frame through
SignatureNeverRejected(message) == FALSE

\* if not verify_message_signature(header, key): log and return
SignatureRejected(message) == ~verify_message_signature(Header(message), CloudKey)

\* a router that takes an acknowledgement from whatever topic
IsAckAnyTopic(frame) ==
    Method(frame.message) \in {"SETACK", "GETACK", "ERROR"}

\* case 2 of _on_message: a command acknowledgement
IsAck(frame) ==
    /\ frame.topic = ClientResponseTopic
    /\ Method(frame.message) \in {"SETACK", "GETACK", "ERROR"}

\* case 3 of _on_message: a push notification
IsPush(frame) ==
    /\ frame.topic = ClientUserTopic
    /\ Method(frame.message) = "PUSH"

\* a lookup that takes whichever future is registered, whatever its key
LookupAnyFuture(table, message_id) ==
    IF \E m \in DOMAIN table : table[m] # 0
    THEN table[CHOOSE m \in DOMAIN table : table[m] # 0]
    ELSE 0

\* self._pending_messages_futures.get(message_id)
LookupFuture(table, message_id) ==
    IF message_id \in DOMAIN table THEN table[message_id] ELSE NoFuture

\* message.payload: message is the dict json.loads returned, and a dict has no
\* attribute of that name
MessagePayloadAttribute(message) ==
    IF message.t = "dict"
    THEN [raised |-> "AttributeError", value |-> PyNone]
    ELSE [raised |-> "no", value |-> message.v]

\* what the acknowledgement branch hands to the loop, and what it raises
AckOutcome(message, future) ==
    IF future = NoFuture
    THEN [schedule |-> <<>>, raised |-> {}]
    ELSE IF Method(message) = "ERROR"
         THEN LET payload == MessagePayloadAttribute(message)
              IN IF payload.raised = "no"
                 THEN [schedule |-> <<[op |-> "set_exception", fut |-> future,
                                       arg |-> payload.value]>>,
                       raised |-> {}]
                 ELSE [schedule |-> <<>>, raised |-> {payload.raised}]
         ELSE [schedule |-> <<[op |-> "set_result", fut |-> future, arg |-> message]>>,
               raised |-> {}]

\* history: the waiting calls an ERROR acknowledgement has just arrived for
NoteError(message) ==
    IF Method(message) = "ERROR"
    THEN {c \in Calls : /\ call[c].pc = "waiting"
                        /\ futures[c].state = "PENDING"
                        /\ call[c].mid = MessageId(message)
                        /\ pending_messages_futures[call[c].mid] = c}
    ELSE {}

\* frames are delivered on the topics once the broker has acknowledged the
\* subscription to them
OnMessage(frame) ==
    /\ handshake.looping
    /\ connected
    /\ handshake.suback
    /\ nframes < MaxFrames
    /\ nframes' = nframes + 1
    /\ IF SignatureRejected(frame.message)
       THEN /\ logged' = logged \cup {"InvalidSignature"}
            /\ UNCHANGED <<loop_ready, transport_exceptions, error_acked>>
       ELSE IF IsAck(frame)
       THEN LET out == AckOutcome(frame.message,
                                  LookupFuture(pending_messages_futures,
                                               MessageId(frame.message)))
            IN /\ loop_ready' = loop_ready \o out.schedule
               /\ transport_exceptions' = transport_exceptions \cup out.raised
               /\ error_acked' = error_acked \cup NoteError(frame.message)
               /\ UNCHANGED logged
       ELSE IF IsPush(frame)
       THEN /\ loop_ready' = Append(loop_ready,
                   [op |-> "dispatch_push",
                    uuid |-> device_uuid_from_push_notification(
                                 DictGet(Header(frame.message), PyStr("from"))),
                    namespace |-> DictGet(Header(frame.message), PyStr("namespace")),
                    data |-> DictGet(frame.message, PyStr("payload"))])
            /\ UNCHANGED <<transport_exceptions, error_acked, logged>>
       ELSE /\ logged' = logged \cup {"UnhandledFrame"}
            /\ UNCHANGED <<loop_ready, transport_exceptions, error_acked>>
    /\ UNCHANGED <<initialized, connected, pending_messages_futures, futures, call,
                   ncalls, loop_exceptions, registry, door_open, handshake, api,
                   codec, device_vars>>

\* acknowledgement traffic only
MqttAck == \E frame \in AckFrames : OnMessage(frame)
MqttMessage == \E frame \in Frames : OnMessage(frame)

(***************************************************************************)
(* Device registry and the devices' reaction to push notifications.        *)
(***************************************************************************)
\* an optional argument or result: left out (None) or given
None == <<>>
Some(x) == <<x>>
Given(x) == x # None

\* BaseDevice: _uuid, _name, _type, _online and the classes the object is an
\* instance of; a device that is no sub-device has no subdevice_id and no hub
BaseDevice(uuid, name, type, online, classes) ==
    [internal_id |-> InternalId(uuid), uuid |-> uuid, subdevice_id |-> "None",
     name |-> name, type |-> type, online |-> online,
     hub_online |-> "None", classes |-> classes \cup {"BaseDevice"}]

\* a garage door opener of the account
Device(uuid) == BaseDevice(uuid, "garage", "msg100", "ONLINE", {"GarageOpenerMixin"})

\* HubDevice
HubUuids == {"H1"}
HubDevice(uuid, online) == BaseDevice(uuid, "hub", "msh300", online, {"HubDevice"})

\* GenericSubDevice: its uuid is the hub's, its internal_id carries both
\* identifiers, and it keeps a reference to its hub
GenericSubDevice(hub, subdevice_id, online) ==
    [internal_id |-> InternalId(hub.uuid) \o <<"#SUB:", subdevice_id>>,
     uuid |-> hub.uuid, subdevice_id |-> subdevice_id,
     name |-> "valve", type |-> "mts100v3", online |-> online,
     hub_online |-> hub.online, classes |-> {"BaseDevice", "GenericSubDevice"}]

\* the online_status property: a sub-device answers with its hub's status
\* unless the hub is online
online_status(d) ==
    IF "GenericSubDevice" \in d.classes /\ d.hub_online # "ONLINE"
    THEN d.hub_online
    ELSE d.online

\* the openers of the account, and those of them discovery enrolls
Openers == {Device(u) : u \in Uuids}
BoundDevices == {Device(u) : u \in BoundUuids}

\* the device objects a program may hand to the registry: the openers, the
\* first opener built once more under another name, a hub that is offline and
\* its valve
DeviceObjects ==
    Openers
        \cup {[Device("U1") EXCEPT !.name = "garage-2"]}
        \cup {HubDevice(h, "OFFLINE") : h \in HubUuids}
        \cup {GenericSubDevice(HubDevice(h, "OFFLINE"), "S1", "ONLINE") : h \in HubUuids}
DeviceIds == {d.internal_id : d \in DeviceObjects}

\* self._devices_by_internal_id.values(), and its keys
Enrolled == {registry[i] : i \in 1..Len(registry)}
EnrolledIds == {d.internal_id : d \in Enrolled}

\* a call, its argument, what it raised and what it returned; argument and
\* result are kept next to the name of the operation they belong to
ApiCall(op, arg, raised, result) ==
    [op |-> op, arg |-> <<op, arg>>, raised |-> raised, result |-> <<op, result>>]
ApiArg(a) == a.arg[2]
ApiResult(a) == a.result[2]

\* an enroll_device that replaces the entry it finds
EnrollDeviceOverwrite(device) ==
    /\ registry' = IF device.internal_id \in EnrolledIds
                   THEN [i \in 1..Len(registry) |->
                            IF registry[i].internal_id = device.internal_id
                            THEN device ELSE registry[i]]
                   ELSE Append(registry, device)
    /\ api' = ApiCall("enroll_device", device, "no", PyNone)
    /\ UNCHANGED <<initialized, connected, pending_messages_futures, futures, call,
                   ncalls, loop_ready, nframes, loop_exceptions, transport_exceptions,
                   logged, door_open, error_acked, handshake, codec, device_vars>>

\* an enroll_device that adds the device without looking for its internal_id
EnrollDeviceUnchecked(device) ==
    /\ registry' = Append(registry, device)
    /\ api' = ApiCall("enroll_device", device, "no", PyNone)
    /\ UNCHANGED <<initialized, connected, pending_messages_futures, futures, call,
                   ncalls, loop_ready, nframes, loop_exceptions, transport_exceptions,
                   logged, door_open, error_acked, handshake, codec, device_vars>>

\* DeviceRegistry.enroll_device: the dict keeps its insertion order
EnrollDevice(device) ==
    /\ IF device.internal_id \in EnrolledIds
       THEN /\ logged' = logged \cup {"AlreadyEnrolled"}
            /\ UNCHANGED registry
       ELSE /\ registry' = Append(registry, device)
            /\ UNCHANGED logged
    /\ api' = ApiCall("enroll_device", device, "no", PyNone)
    /\ UNCHANGED <<initialized, connected, pending_messages_futures, futures, call,
                   ncalls, loop_ready, nframes, loop_exceptions, transport_exceptions,
                   door_open, error_acked, handshake, codec, device_vars>>

Enroll == \E d \in BoundDevices : EnrollDevice(d)

\* DeviceRegistry.lookup_by_id
lookup_by_id(device_id) ==
    IF device_id \in EnrolledIds
    THEN CHOOSE d \in Enrolled : d.internal_id = device_id
    ELSE PyNone

\* dev.dismiss(): no device class defines the method
dismiss(dev) == [raised |-> "AttributeError"]

\* a relinquish_device that returns quietly when it does not know the device
RelinquishDeviceSilent(device_id) ==
    /\ api' = ApiCall("relinquish_device", device_id, "no", PyNone)
    /\ UNCHANGED <<initialized, connected, pending_messages_futures, futures, call,
                   ncalls, loop_ready, nframes, loop_exceptions, transport_exceptions,
                   logged, registry, door_open, error_acked, handshake, codec, device_vars>>

\* DeviceRegistry.relinquish_device
RelinquishDevice(device_id) ==
    /\ LET dev == lookup_by_id(device_id)
       IN IF device_id \notin EnrolledIds
          THEN /\ api' = ApiCall("relinquish_device", device_id, "ValueError", PyNone)
               /\ UNCHANGED <<registry, logged>>
          ELSE IF dismiss(dev).raised # "no"
          THEN /\ api' = ApiCall("relinquish_device", device_id, dismiss(dev).raised,
                                 PyNone)
               /\ UNCHANGED <<registry, logged>>
          ELSE /\ registry' = SelectSeq(registry, LAMBDA d : d.internal_id # device_id)
               /\ logged' = logged \cup {"Relinquished"}
               /\ api' = ApiCall("relinquish_device", device_id, "no", PyNone)
    /\ UNCHANGED <<initialized, connected, pending_messages_futures, futures, call,
                   ncalls, loop_ready, nframes, loop_exceptions, transport_exceptions,
                   door_open, error_acked, handshake, codec, device_vars>>

\* a lookup that does not tell sub-devices from the others
lookup_any_by_uuid(device_uuid) ==
    LET res == SelectSeq(registry, LAMBDA d : d.uuid = device_uuid)
    IN IF Len(res) > 1 THEN [raised |-> "ValueError", value |-> None]
       ELSE IF Len(res) = 1 THEN [raised |-> "no", value |-> Some(res[1])]
       ELSE [raised |-> "no", value |-> None]

\* DeviceRegistry.lookup_base_by_uuid
lookup_base_by_uuid(device_uuid) ==
    LET res == SelectSeq(registry,
                   LAMBDA d : d.uuid = device_uuid /\ "GenericSubDevice" \notin d.classes)
    IN IF Len(res) > 1 THEN [raised |-> "ValueError", value |-> None]
       ELSE IF Len(res) = 1 THEN [raised |-> "no", value |-> Some(res[1])]
       ELSE [raised |-> "no", value |-> None]

\* a search that returns every enrolled device, whatever the filters
find_all_unfiltered(internal_ids, device_uuids, device_type, device_class, device_name, online_status_) == registry

\* a search that leaves the name filter out
find_all_by_any_name(internal_ids, device_uuids, device_type, device_class, device_name, online_status_) ==
    LET res0 == IF Given(internal_ids)
                THEN SelectSeq(registry, LAMBDA d : d.internal_id \in internal_ids[1])
                ELSE registry
        res1 == IF Given(device_uuids)
                THEN SelectSeq(res0, LAMBDA d : d.uuid \in device_uuids[1]) ELSE res0
        res2 == IF Given(device_type)
                THEN SelectSeq(res1, LAMBDA d : d.type = device_type[1]) ELSE res1
        res3 == IF Given(online_status_)
                THEN SelectSeq(res2, LAMBDA d : online_status(d) = online_status_[1])
                ELSE res2
        res4 == IF Given(device_class)
                THEN SelectSeq(res3, LAMBDA d : device_class[1] \in d.classes) ELSE res3
    IN res4

\* DeviceRegistry.find_all_by: the filters given are applied one after the other
find_all_by(internal_ids, device_uuids, device_type, device_class, device_name, online_status_) ==
    LET res0 == IF Given(internal_ids)
                THEN SelectSeq(registry, LAMBDA d : d.internal_id \in internal_ids[1])
                ELSE registry
        res1 == IF Given(device_uuids)
                THEN SelectSeq(res0, LAMBDA d : d.uuid \in device_uuids[1]) ELSE res0
        res2 == IF Given(device_type)
                THEN SelectSeq(res1, LAMBDA d : d.type = device_type[1]) ELSE res1
        res3 == IF Given(online_status_)
                THEN SelectSeq(res2, LAMBDA d : online_status(d) = online_status_[1])
                ELSE res2
        res4 == IF Given(device_class)
                THEN SelectSeq(res3, LAMBDA d : device_class[1] \in d.classes) ELSE res3
        res5 == IF Given(device_name)
                THEN SelectSeq(res4, LAMBDA d : d.name = device_name[1]) ELSE res4
    IN res5

\* OnlineStatus: the member a status code stands for, "ValueError" when the
\* enum has no member of that value
OnlineStatuses == {"ONLINE", "OFFLINE", "UNKNOWN"}
OnlineStatus(code) ==
    CASE code = PyInt(1) -> "ONLINE"
      [] code = PyInt(2) -> "OFFLINE"
      [] code = PyInt(0 - 1) -> "UNKNOWN"
      [] OTHER -> "ValueError"

\* the fields of an object after __init__: _online, the dicts of the valve and
\* of the sensor, the door states of an opener, the channels (none when the
\* constructor is given no 'channels'); utcoffset is the offset from UTC of the
\* zone the object's program runs in
NewObject(online) ==
    [online |-> online, togglex |-> EmptyDict, time_sync |-> PyNone,
     mode |-> EmptyDict, temperature |-> EmptyDict, schedule_b_mode |-> PyNone,
     last_active_time |-> PyNone, humidity |-> EmptyDict, samples |-> <<>>,
     doors |-> [ch \in Channels |-> "None"], channels |-> <<>>, utcoffset |-> 0]

\* handle_push_notification: every class does its own part and then calls
\* the next class of the chain.  First the dict operations the handlers use.

\* dict[key] = value
DictSet(d, key, value) ==
    IF \E i \in 1..Len(d.v) : d.v[i][1] = key
    THEN PyDict([i \in 1..Len(d.v) |-> IF d.v[i][1] = key THEN <<key, value>> ELSE d.v[i]])
    ELSE PyDict(Append(d.v, <<key, value>>))
\* key in dict
DictHas(d, key) == d.t = "dict" /\ \E i \in 1..Len(d.v) : d.v[i][1] = key
\* dict.get(key, default)
DictGetOr(d, key, default) == IF DictHas(d, key) THEN DictGet(d, key) ELSE default
\* del dict[key]
DictDel(d, key) == PyDict(SelectSeq(d.v, LAMBDA item : item[1] # key))
\* dict.update(other)
RECURSIVE DictUpdateItems(_, _)
DictUpdateItems(d, items) ==
    IF items = <<>> THEN d
    ELSE DictUpdateItems(DictSet(d, Head(items)[1], Head(items)[2]), Tail(items))
DictUpdate(d, other) == DictUpdateItems(d, other.v)

\* what one class's part of a handler leaves: the object, whether the class
\* took the notification, and the exception it raised
Handled(obj, handled) == [obj |-> obj, handled |-> handled, raised |-> "no"]
Raised(obj, error) == [obj |-> obj, handled |-> FALSE, raised |-> error]

\* a loop over the doors that stops after the first
GarageDoorsFirstOnly(doors, obj, handled) ==
    IF doors = <<>> THEN Handled(obj, handled)
    ELSE Handled([obj EXCEPT !.doors[DictGet(Head(doors), PyStr("channel")).v] =
                                IF DictGet(Head(doors), PyStr("open")) = PyInt(1)
                                THEN "True" ELSE "False"],
                 TRUE)

\* the loop over the doors of GarageOpenerMixin.handle_push_notification
RECURSIVE GarageDoors(_, _, _)
GarageDoors(doors, obj, handled) ==
    IF doors = <<>> THEN Handled(obj, handled)
    ELSE LET door == Head(doors)
         IN IF door.t # "dict" THEN Raised(obj, "TypeError")
            ELSE IF ~DictHas(door, PyStr("channel")) \/ ~DictHas(door, PyStr("open"))
            THEN Raised(obj, "KeyError")
            ELSE LET channel_index == DictGet(door, PyStr("channel")).v
                     state == IF DictGet(door, PyStr("open")) = PyInt(1)
                              THEN "True" ELSE "False"
                 IN GarageDoors(Tail(doors),
                                [obj EXCEPT !.doors[channel_index] = state], TRUE)

\* GarageOpenerMixin.handle_push_notification before its call of super()
GarageOpenerMixin(obj, namespace, data) ==
    IF namespace # "GARAGE_DOOR_STATE" THEN Handled(obj, FALSE)
    ELSE LET payload == DictGet(data, PyStr("state"))
         IN IF payload = PyNone THEN Handled(obj, FALSE)
            ELSE IF payload.t = "list" THEN GarageDoors(payload.v, obj, FALSE)
            ELSE IF payload.t = "dict"
                 \* the loop runs over the keys of the dict, which are strings
                 THEN IF payload.v = <<>> THEN Handled(obj, FALSE)
                      ELSE Raised(obj, "TypeError")
            ELSE Raised(obj, "TypeError")

\* SystemOnlineMixin.handle_push_notification before its call of super()
SystemOnlineMixin(obj, namespace, data) ==
    IF namespace # "SYSTEM_ONLINE" THEN Handled(obj, FALSE)
    ELSE LET payload == DictGet(data, PyStr("online"))
         IN IF payload = PyNone THEN Handled(obj, FALSE)
            ELSE IF payload.t # "dict" THEN Raised(obj, "AttributeError")
            ELSE LET online_data == DictGet(payload, PyStr("online"))
                 IN IF online_data.t # "dict" THEN Raised(obj, "AttributeError")
                    ELSE LET status == OnlineStatus(DictGet(online_data, PyStr("status")))
                         IN IF status = "ValueError" THEN Raised(obj, "ValueError")
                            ELSE Handled([obj EXCEPT !.online = status], TRUE)

\* __prepare_push_notification_data: a copy of data without its 'id'
prepare_push_notification_data(data) ==
    IF DictHas(data, PyStr("id"))
    THEN [raised |-> "no", value |-> DictDel(data, PyStr("id"))]
    ELSE [raised |-> "KeyError", value |-> PyNone]

\* the HUB_ONLINE branch, which the valve and the sensor share
HubOnline(obj, data) ==
    LET update_element == prepare_push_notification_data(data)
    IN IF update_element.raised # "no" THEN Raised(obj, update_element.raised)
       ELSE LET status == OnlineStatus(DictGetOr(update_element.value, PyStr("status"),
                                                 PyInt(0 - 1)))
            IN IF status = "ValueError" THEN Raised(obj, "ValueError")
               ELSE Handled([obj EXCEPT !.online = status], TRUE)

\* a branch that merges the notification, less its 'id', into one dict
MergeInto(obj, field, data) ==
    LET update_element == prepare_push_notification_data(data)
    IN IF update_element.raised # "no" THEN Raised(obj, update_element.raised)
       ELSE Handled([obj EXCEPT ![field] = DictUpdate(@, update_element.value)], TRUE)

\* Mts100v3Valve.handle_push_notification before its call of super()
Mts100v3Valve(obj, namespace, data) ==
    CASE namespace = "HUB_ONLINE" -> HubOnline(obj, data)
      [] namespace = "HUB_MTS100_ALL" ->
            LET online == DictGetOr(data, PyStr("online"), EmptyDict)
                status == OnlineStatus(DictGetOr(online, PyStr("status"), PyInt(0 - 1)))
                scheduled == [obj EXCEPT !.schedule_b_mode =
                                             DictGet(data, PyStr("scheduleBMode"))]
            IN IF status = "ValueError" THEN Raised(scheduled, "ValueError")
               ELSE Handled(
                      [scheduled EXCEPT
                         !.online = status,
                         !.last_active_time = DictGet(online, PyStr("lastActiveTime")),
                         !.togglex = DictUpdate(@, DictGetOr(data, PyStr("togglex"), EmptyDict)),
                         !.time_sync = DictGetOr(data, PyStr("timeSync"), EmptyDict),
                         !.mode = DictUpdate(@, DictGetOr(data, PyStr("mode"), EmptyDict)),
                         !.temperature = DictUpdate(@, DictGetOr(data, PyStr("temperature"),
                                                                 EmptyDict))],
                      TRUE)
      [] namespace = "HUB_TOGGLEX" -> MergeInto(obj, "togglex", data)
      [] namespace = "HUB_MTS100_MODE" -> MergeInto(obj, "mode", data)
      [] namespace = "HUB_MTS100_TEMPERATURE" -> MergeInto(obj, "temperature", data)
      [] OTHER -> Handled(obj, FALSE)

\* the offsets from UTC of the zone the program may run in, in the unit of the
\* timestamps
UtcOffsets == {0 - 2, 0, 2}

\* datetime.utcfromtimestamp: a datetime without zone that shows the clock of
\* UTC at the timestamp
utcfromtimestamp(timestamp) == [t |-> "datetime", v |-> timestamp.v]

\* datetime.timestamp of a datetime without zone: its clock is read as the
\* clock of the local zone
datetime_timestamp(dt, utcoffset) == dt.v - utcoffset

\* Ms100Sensor.last_sampled_time
last_sampled_time(obj) ==
    LET latestSampleTime == DictGet(obj.temperature, PyStr("latestSampleTime"))
    IN IF latestSampleTime = PyNone THEN PyNone
       ELSE utcfromtimestamp(latestSampleTime)

\* the loop over the samples of Ms100Sensor.handle_push_notification
RECURSIVE SensorSamples(_, _)
SensorSamples(samples, obj) ==
    IF samples = <<>> THEN Handled(obj, TRUE)
    ELSE LET sample == Head(samples)
         IN IF sample.t \notin {"list", "tuple"} THEN Raised(obj, "TypeError")
            ELSE IF Len(sample.v) # 5 THEN Raised(obj, "ValueError")
            ELSE SensorSamples(Tail(samples),
                    [obj EXCEPT !.samples = Append(@,
                        [from_ts |-> sample.v[3], to_ts |-> sample.v[4],
                         temperature |-> sample.v[1], humidity |-> sample.v[2]])])

\* Ms100Sensor.handle_push_notification before its call of super()
Ms100Sensor(obj, namespace, data) ==
    CASE namespace = "HUB_ONLINE" -> HubOnline(obj, data)
      [] namespace = "HUB_SENSOR_ALL" ->
            LET online == DictGetOr(data, PyStr("online"), EmptyDict)
                status == OnlineStatus(DictGetOr(online, PyStr("status"), PyInt(0 - 1)))
            IN IF status = "ValueError" THEN Raised(obj, "ValueError")
               ELSE Handled(
                      [obj EXCEPT
                         !.online = status,
                         !.temperature = DictUpdate(@, DictGetOr(data, PyStr("temperature"),
                                                                 EmptyDict)),
                         !.humidity = DictUpdate(@, DictGetOr(data, PyStr("humidity"),
                                                              EmptyDict))],
                      TRUE)
      [] namespace = "HUB_SENSOR_TEMPHUM" ->
            LET synced_time == DictGet(data, PyStr("syncedTime"))
                samples == DictGet(data, PyStr("sample"))
                newer == /\ synced_time # PyNone
                         /\ \/ last_sampled_time(obj) = PyNone
                            \/ synced_time.v > datetime_timestamp(last_sampled_time(obj), obj.utcoffset)
                latest ==
                    IF newer
                    THEN [obj EXCEPT
                            !.temperature =
                                DictSet(DictSet(@, PyStr("latestSampleTime"), synced_time),
                                        PyStr("latest"),
                                        DictGet(data, PyStr("latestTemperature"))),
                            !.humidity =
                                DictSet(DictSet(@, PyStr("latestSampleTime"), synced_time),
                                        PyStr("latest"),
                                        DictGet(data, PyStr("latestHumidity")))]
                    ELSE obj
                cleared == [latest EXCEPT !.samples = <<>>]
            IN IF samples.t \notin {"list", "tuple"} THEN Raised(cleared, "TypeError")
               ELSE SensorSamples(samples.v, cleared)
      [] namespace = "HUB_SENSOR_ALERT" -> Raised(obj, "NotImplementedError")
      [] OTHER -> Handled(obj, FALSE)

\* the classes of an object that define handle_push_notification, in the
\* order super() walks them; BaseDevice is always the last
Chain(class) ==
    CASE class = "Mts100v3Valve" -> <<"Mts100v3Valve", "BaseDevice">>
      [] class = "Ms100Sensor" -> <<"Ms100Sensor", "BaseDevice">>
      [] class = "GarageOpener" -> <<"GarageOpenerMixin", "SystemOnlineMixin", "BaseDevice">>
      [] class = "OnlinePlug" -> <<"SystemOnlineMixin", "BaseDevice">>
      [] OTHER -> <<"BaseDevice">>

\* the own part of one class of the chain
LocalPart(class, obj, namespace, data) ==
    CASE class = "GarageOpenerMixin" -> GarageOpenerMixin(obj, namespace, data)
      [] class = "SystemOnlineMixin" -> SystemOnlineMixin(obj, namespace, data)
      [] class = "Mts100v3Valve" -> Mts100v3Valve(obj, namespace, data)
      [] class = "Ms100Sensor" -> Ms100Sensor(obj, namespace, data)
      [] class = "BaseDevice" -> Handled(obj, FALSE)

\* locally_handled or parent_handled, once super() has returned
HandledByAny(class, local, parent) ==
    [obj |-> parent.obj,
     handled |-> IF parent.raised = "no" THEN local.handled \/ parent.handled ELSE FALSE,
     raised |-> parent.raised,
     visited |-> <<class>> \o parent.visited]

\* handle_push_notification of the first class of the chain: its own part,
\* then super().handle_push_notification unless the own part raised.  visited
\* lists the classes whose handler was entered.
RECURSIVE HandlePushNotification(_, _, _, _)
CallSuper(chain, local, namespace, data) ==
    IF local.raised # "no" \/ Len(chain) = 1
    THEN [obj |-> local.obj, handled |-> local.handled, raised |-> local.raised,
          visited |-> <<Head(chain)>>]
    ELSE HandledByAny(Head(chain), local,
                      HandlePushNotification(Tail(chain), local.obj, namespace, data))

HandlePushNotification(chain, obj, namespace, data) ==
    CallSuper(chain, LocalPart(Head(chain), obj, namespace, data), namespace, data)

\* the Namespace member a header's namespace string stands for
parse_namespace(value) ==
    IF \E ns \in Namespaces : NamespaceValue(ns) = value
    THEN CHOOSE ns \in Namespaces : NamespaceValue(ns) = value
    ELSE "None"

\* handle_push_notification of an opener of the account, whose only mixin is
\* GarageOpenerMixin: the door states after the push, and whether it was handled
DoorsOf(res) == [state |-> res.obj.doors, handled |-> res.handled, raised |-> res.raised]
handle_push_notification(state, namespace, data) ==
    DoorsOf(HandlePushNotification(<<"GarageOpenerMixin", "BaseDevice">>,
                                   [NewObject("ONLINE") EXCEPT !.doors = state],
                                   namespace, data))

(***************************************************************************)
(* The event loop runs the next callback the mqtt thread handed to it.     *)
(***************************************************************************)
\* Future.set_result / Future.set_exception: only a pending future takes an
\* outcome, any other raises InvalidStateError inside the callback
FutureResolve(future, op, arg) ==
    IF future.state = "PENDING"
    THEN [future |-> [state |-> IF op = "set_result" THEN "RESULT" ELSE "EXCEPTION",
                      value |-> arg],
          raised |-> {}]
    ELSE [future |-> future,
          raised |-> {[error |-> "InvalidStateError", state |-> future.state]}]

\* MerossManager._dispatch_push_notification: the device the push goes to
\* ("None" when there is none), the state it leaves that device in, what is
\* logged, the value returned and the exception the device's handler raised,
\* which the coroutine lets through
Dispatched(dev, res) ==
    [target |-> dev.uuid, state |-> res.state,
     logged |-> IF res.handled \/ res.raised # "no" THEN {} ELSE {"UncaughtPush"},
     returned |-> res.handled, raised |-> res.raised]

DispatchTo(cb, target_devs) ==
    IF Len(target_devs) < 1
    THEN [target |-> "None", state |-> <<>>, logged |-> {"UnknownDevicePush"},
          returned |-> FALSE, raised |-> "no"]
    ELSE Dispatched(target_devs[1],
                    handle_push_notification(door_open[target_devs[1].uuid],
                                             parse_namespace(cb.namespace), cb.data))

dispatch_push_notification(cb) ==
    DispatchTo(cb, find_all_by(None, Some({cb.uuid}), None, None, None, None))

\* a dispatch that loses the notification
DispatchPushLost(cb) == UNCHANGED <<door_open, logged, loop_exceptions>>

Deliver(out) ==
    /\ door_open' = IF out.target = "None" THEN door_open
                    ELSE [door_open EXCEPT ![out.target] = out.state]
    /\ logged' = logged \cup out.logged
    /\ loop_exceptions' = loop_exceptions \cup
          (IF out.raised = "no" THEN {}
           ELSE {[fut |-> 0, error |-> out.raised, state |-> "dispatch"]})

DispatchPush(cb) == Deliver(dispatch_push_notification(cb))

LoopRun ==
    /\ loop_ready # <<>>
    /\ loop_ready' = Tail(loop_ready)
    /\ LET cb == Head(loop_ready)
       IN IF cb.op = "event_set"
          THEN /\ handshake' = [handshake EXCEPT
                                   !.event = TRUE,
                                   !.woken = (handshake.pc = "waiting"),
                                   !.others = [i \in 1..Len(@) |->
                                                  IF @[i] = "waiting" THEN "woken"
                                                  ELSE @[i]]]
               /\ UNCHANGED <<futures, loop_exceptions, door_open, logged>>
          ELSE IF cb.op = "dispatch_push"
          THEN /\ DispatchPush(cb)
               /\ UNCHANGED <<futures, handshake>>
          ELSE LET res == FutureResolve(futures[cb.fut], cb.op, cb.arg)
               IN /\ futures' = [futures EXCEPT ![cb.fut] = res.future]
                  /\ loop_exceptions' = loop_exceptions \cup
                        {[fut |-> cb.fut, error |-> e.error, state |-> e.state] :
                            e \in res.raised}
                  /\ UNCHANGED <<door_open, logged, handshake>>
    /\ UNCHANGED <<initialized, connected, pending_messages_futures, call, ncalls,
                   nframes, transport_exceptions, registry, error_acked, api, codec, device_vars>>

(***************************************************************************)
(* The engine.                                                             *)
(***************************************************************************)
EngineInit == ManagerInit /\ registry = <<>> /\ NoDevices

Init ==
    /\ EngineInit
    /\ codec = PyNone

\* the correlation layer: commands and their acknowledgements
Next ==
    \/ AsyncInit
    \/ OnConnect
    \/ OnSubscribe
    \/ AsyncInitReady
    \/ AsyncExecuteCmd
    \/ \E c \in Calls : Resume(c)
    \/ \E c \in Calls : Timeout(c)
    \/ MqttAck
    \/ LoopRun

Spec == Init /\ [][Next]_vars

\* the event loop keeps running: ready callbacks run, done futures wake their
\* waiters and timers fire
FairNext ==
    \/ AsyncInit
    \/ OnConnect
    \/ OnSubscribe
    \/ AsyncInitReady
    \/ \E c \in FairCalls, r \in RandomStrings, ts \in Timestamps :
          ExecuteCmd(c, "GET", "SYSTEM_ABILITY", EmptyDict, r, ts)
    \/ \E c \in FairCalls : Resume(c)
    \/ \E c \in FairCalls : Timeout(c)
    \/ MqttAck
    \/ LoopRun

FairSpec ==
    /\ Init
    /\ [][FairNext]_vars
    /\ WF_vars(LoopRun)
    /\ \A c \in FairCalls : WF_vars(Resume(c)) /\ WF_vars(Timeout(c))

\* the router: every kind of frame, one command, the registry
RouterNext ==
    \/ AsyncInit
    \/ OnConnect
    \/ OnSubscribe
    \/ AsyncInitReady
    \/ \E r \in RandomStrings, ts \in Timestamps :
          ExecuteCmd(1, "GET", "SYSTEM_ABILITY", EmptyDict, r, ts)
    \/ Resume(1)
    \/ Timeout(1)
    \/ MqttMessage
    \/ LoopRun
    \/ Enroll

RouterSpec == Init /\ [][RouterNext]_vars

(***************************************************************************)
(* Push traffic alone: the devices of the account are enrolled while their *)
(* notifications arrive.                                                   *)
(***************************************************************************)
MqttPush == \E frame \in PushFrames : OnMessage(frame)

PushNext ==
    \/ AsyncInit
    \/ OnConnect
    \/ OnSubscribe
    \/ AsyncInitReady
    \/ MqttPush
    \/ LoopRun
    \/ \E d \in Openers : EnrollDevice(d)

PushSpec == Init /\ [][PushNext]_vars

(***************************************************************************)
(* The registry alone: devices are enrolled, relinquished and looked up.   *)
(***************************************************************************)
\* GenericSubDevice.__init__ raises unless its hub is found by the manager
Constructible(d) ==
    "GenericSubDevice" \in d.classes
        => find_all_by(None, Some({d.uuid}), None, None, None, None) # <<>>

\* the searches made
Queries ==
    [internal_ids : {None, Some({InternalId("U1"), InternalId("H1"),
                                 InternalId("H1") \o <<"#SUB:", "S1">>})},
     device_uuids : {None, Some({"U1", "H1"})},
     device_type : {None, Some("msg100")},
     device_class : {None, Some("HubDevice")},
     device_name : {None, Some("garage")},
     online_status : {None, Some("OFFLINE")}]

\* MerossManager.find_devices
FindDevices(q) ==
    /\ api' = ApiCall("find_devices", q, "no",
                      find_all_by(q.internal_ids, q.device_uuids, q.device_type,
                                  q.device_class, q.device_name, q.online_status))
    /\ UNCHANGED <<initialized, connected, pending_messages_futures, futures, call,
                   ncalls, loop_ready, nframes, loop_exceptions, transport_exceptions,
                   logged, registry, door_open, error_acked, handshake, codec, device_vars>>

LookupBaseByUuid(device_uuid) ==
    /\ LET res == lookup_base_by_uuid(device_uuid)
       IN api' = ApiCall("lookup_base_by_uuid", device_uuid, res.raised, res.value)
    /\ UNCHANGED <<initialized, connected, pending_messages_futures, futures, call,
                   ncalls, loop_ready, nframes, loop_exceptions, transport_exceptions,
                   logged, registry, door_open, error_acked, handshake, codec, device_vars>>

RegistryNext ==
    \/ \E d \in DeviceObjects : Constructible(d) /\ EnrollDevice(d)
    \/ \E id \in DeviceIds : RelinquishDevice(id)
    \/ \E q \in Queries : FindDevices(q)
    \/ \E u \in Uuids \cup HubUuids : LookupBaseByUuid(u)

RegistrySpec == Init /\ [][RegistryNext]_vars

(***************************************************************************)
(* The codec alone: an envelope is built for some command and read back    *)
(* the way _on_message reads a frame.                                      *)
(***************************************************************************)
CodecMethods == {"GET", "SET"}
CodecPayloads ==
    { EmptyDict,
      \* GenericSubDevice.async_update
      PyDict(<< <<PyStr("all"), PyList(<< PyDict(<< <<PyStr("id"), PyStr("SD1")>> >>) >>)>> >>),
      \* GarageOpenerMixin._operate
      PyDict(<< <<PyStr("state"), PyDict(<< <<PyStr("channel"), PyInt(0)>>,
                                            <<PyStr("open"), PyInt(1)>>,
                                            <<PyStr("uuid"), PyStr("U1")>> >>)>> >>),
      \* Mts100v3Valve.async_turn_on
      PyDict(<< <<PyStr("togglex"), PyList(<< PyDict(<< <<PyStr("id"), PyStr("SD1")>>,
                                                        <<PyStr("onoff"), PyInt(1)>>,
                                                        <<PyStr("channel"), PyInt(0)>> >>) >>)>> >>) }

CodecInit ==
    /\ EngineInit
    /\ \E m \in CodecMethods, ns \in Namespaces \cup {"None"}, p \in CodecPayloads,
          r \in RandomStrings, ts \in Timestamps :
          codec = [stage |-> "input", method |-> m, namespace |-> ns, payload |-> p,
                   randomstring |-> r, timestamp |-> ts,
                   strdata |-> PyNone, messageId |-> PyNone, message |-> PyNone]

\* message, message_id = self._build_mqtt_message(method, namespace, payload)
CodecBuild ==
    /\ codec.stage = "input"
    /\ LET built == build_mqtt_message(codec.method, codec.namespace, codec.payload,
                                       codec.randomstring, codec.timestamp)
       IN codec' = [codec EXCEPT !.stage = IF built.raised = "no" THEN "built"
                                           ELSE built.raised,
                                 !.strdata = built.strdata,
                                 !.messageId = built.messageId]
    /\ UNCHANGED engine_vars

\* message = json.loads(str(msg.payload, "utf8"))
CodecDecode ==
    /\ codec.stage = "built"
    /\ codec' = [codec EXCEPT !.stage = "decoded", !.message = JsonLoads(codec.strdata)]
    /\ UNCHANGED engine_vars

CodecNext == CodecBuild \/ CodecDecode

CodecSpec == CodecInit /\ [][CodecNext]_vars

(***************************************************************************)
(* Device objects: a hub, its sub-devices and the objects capability       *)
(* mixins are attached to.                                                 *)
(***************************************************************************)
\* the sub-device objects built for hub H1: two valves built from the same
\* subordinate identifier, a sensor and a sub-device of a type that names no
\* namespace for its refresh
SubDevices == {"valve", "valve_again", "sensor", "generic"}
\* the class of an object, and the classes its handlers are looked up in
ClassOf(o) ==
    CASE o \in {"valve", "valve_again"} -> "Mts100v3Valve"
      [] o = "sensor" -> "Ms100Sensor"
      [] o = "generic" -> "GenericSubDevice"
      [] o = "hub" -> "HubDevice"
      [] o = "opener" -> "GarageOpener"
      [] o = "plug" -> "OnlinePlug"
\* GenericSubDevice._subdevice_id
SubdeviceId(o) ==
    CASE o \in {"valve", "valve_again"} -> "S1"
      [] o = "sensor" -> "S2"
      [] o = "generic" -> "S3"
\* _UPDATE_ALL_NAMESPACE of the object's class
UPDATE_ALL_NAMESPACE(o) ==
    CASE ClassOf(o) = "Mts100v3Valve" -> "HUB_MTS100_ALL"
      [] ClassOf(o) = "Ms100Sensor" -> "HUB_SENSOR_ALL"
      [] OTHER -> "None"

\* the sub-device as the registry holds it: its hub is the one object "hub"
SubDeviceView(o) ==
    GenericSubDevice(HubDevice("H1", objects["hub"].online), SubdeviceId(o),
                     objects[o].online)

\* HubDevice.get_subdevice
get_subdevice(subdevice_id) ==
    IF \E i \in 1..Len(sub_devices) : sub_devices[i][1] = subdevice_id
    THEN sub_devices[CHOOSE i \in 1..Len(sub_devices) : sub_devices[i][1] = subdevice_id][2]
    ELSE "None"

\* a registration that replaces the sub-device it finds under the key
RegisterSubdeviceReplacing(subdevice) ==
    /\ sub_devices' =
          IF get_subdevice(SubdeviceId(subdevice)) # "None"
          THEN [i \in 1..Len(sub_devices) |->
                   IF sub_devices[i][1] = SubdeviceId(subdevice)
                   THEN <<SubdeviceId(subdevice), subdevice>> ELSE sub_devices[i]]
          ELSE Append(sub_devices, <<SubdeviceId(subdevice), subdevice>>)
    /\ api' = ApiCall("register_subdevice", subdevice, "no", PyNone)
    /\ UNCHANGED <<initialized, connected, pending_messages_futures, futures, call,
                   ncalls, loop_ready, nframes, loop_exceptions, transport_exceptions,
                   logged, registry, door_open, error_acked, handshake, codec,
                   objects, sent, coroutines, discovery>>

\* HubDevice.register_subdevice: the dict keeps its insertion order
RegisterSubdevice(subdevice) ==
    /\ IF get_subdevice(SubdeviceId(subdevice)) # "None"
       THEN /\ logged' = logged \cup {"AlreadyRegistered"}
            /\ UNCHANGED sub_devices
       ELSE /\ sub_devices' = Append(sub_devices, <<SubdeviceId(subdevice), subdevice>>)
            /\ UNCHANGED logged
    /\ api' = ApiCall("register_subdevice", subdevice, "no", PyNone)
    /\ UNCHANGED <<initialized, connected, pending_messages_futures, futures, call,
                   ncalls, loop_ready, nframes, loop_exceptions, transport_exceptions,
                   registry, door_open, error_acked, handshake, codec,
                   objects, sent, coroutines, discovery>>

(***************************************************************************)
(* A hub and its sub-devices: registration, and the operations of a        *)
(* sub-device, which send their commands through the hub.                  *)
(***************************************************************************)
IdleCoroutine == [name |-> "none", self |-> "none", arg |-> PyNone, pc |-> "idle"]

\* the payloads of the sub-device operations
IdList(key, subdevice_id, items) ==
    PyDict(<< <<PyStr(key),
                PyList(<< PyDict(<< <<PyStr("id"), PyStr(subdevice_id)>> >> \o items) >>)>> >>)

\* ThermostatV3Mode values and the temperatures a program asks for
Modes == {0, 3}
Temperatures == {21}
\* get_supported_presets(), and a name that is none of them
Presets == {"custom", "comfort", "economy", "away"}
PresetArgs == {"comfort", "boost"}

\* the requests a sub-device makes of its hub: the method, the namespace and
\* the payload of self._hub._execute_command(...), "ValueError" when the
\* operation raises before it
Request(name, o, arg) ==
    CASE name = "async_update" ->
            [raised |-> "no", method |-> "GET", namespace |-> UPDATE_ALL_NAMESPACE(o),
             payload |-> IdList("all", SubdeviceId(o), <<>>)]
      [] name = "async_turn_off" ->
            [raised |-> "no", method |-> "SET", namespace |-> "HUB_TOGGLEX",
             payload |-> IdList("togglex", SubdeviceId(o),
                                << <<PyStr("onoff"), PyInt(0)>>,
                                   <<PyStr("channel"), PyInt(0)>> >>)]
      [] name = "async_turn_on" ->
            [raised |-> "no", method |-> "SET", namespace |-> "HUB_TOGGLEX",
             payload |-> IdList("togglex", SubdeviceId(o),
                                << <<PyStr("onoff"), PyInt(1)>>,
                                   <<PyStr("channel"), PyInt(0)>> >>)]
      [] name = "async_set_mode" ->
            [raised |-> "no", method |-> "SET", namespace |-> "HUB_MTS100_MODE",
             payload |-> IdList("mode", SubdeviceId(o), << <<PyStr("state"), arg>> >>)]
      [] name = "async_set_target_temperature" ->
            [raised |-> "no", method |-> "SET", namespace |-> "HUB_MTS100_TEMPERATURE",
             payload |-> IdList("temperature", SubdeviceId(o),
                                << <<PyStr("custom"), PyInt(arg.v * 10)>> >>)]
      [] name = "async_set_preset_temperature" ->
            IF arg.v[1].v \notin Presets
            THEN [raised |-> "ValueError", method |-> "SET",
                  namespace |-> "HUB_MTS100_TEMPERATURE", payload |-> EmptyDict]
            ELSE [raised |-> "no", method |-> "SET", namespace |-> "HUB_MTS100_TEMPERATURE",
                  payload |-> IdList("temperature", SubdeviceId(o),
                                     << <<arg.v[1], PyInt(arg.v[2].v * 10)>> >>)]

\* the operations of each class and their arguments
Operations(o) ==
    IF ClassOf(o) = "Mts100v3Valve"
    THEN ({"async_update", "async_turn_on", "async_turn_off"} \X {PyNone})
            \cup ({"async_set_mode"} \X {PyInt(m) : m \in Modes})
            \cup ({"async_set_target_temperature"} \X {PyInt(t) : t \in Temperatures})
            \cup ({"async_set_preset_temperature"}
                     \X {PyTuple(<<PyStr(p), PyInt(t)>>) : p \in PresetArgs, t \in Temperatures})
    ELSE {"async_update"} \X {PyNone}

\* a refresh that applies every state of the answer, whatever its id
RECURSIVE UpdateFromEveryState(_, _, _)
UpdateFromEveryState(subdevices_states, o, obj) ==
    IF subdevices_states = <<>> THEN [obj |-> obj, raised |-> "no"]
    ELSE UpdateFromEveryState(Tail(subdevices_states), o,
            HandlePushNotification(Chain(ClassOf(o)), obj, UPDATE_ALL_NAMESPACE(o),
                                   Head(subdevices_states)).obj)

\* what the coroutine of a sub-device operation does once the hub's
\* _execute_command has returned result: the object it leaves and what it raises
RECURSIVE UpdateFromStates(_, _, _)
UpdateFromStates(subdevices_states, o, obj) ==
    IF subdevices_states = <<>> THEN [obj |-> obj, raised |-> "no"]
    ELSE LET subdev_state == Head(subdevices_states)
         IN IF subdev_state.t # "dict" THEN [obj |-> obj, raised |-> "AttributeError"]
            ELSE IF DictGet(subdev_state, PyStr("id")) # PyStr(SubdeviceId(o))
            THEN UpdateFromStates(Tail(subdevices_states), o, obj)
            ELSE LET res == HandlePushNotification(Chain(ClassOf(o)), obj,
                                                   UPDATE_ALL_NAMESPACE(o), subdev_state)
                 IN [obj |-> res.obj, raised |-> res.raised]

AfterCommand(name, o, arg, obj, result) ==
    CASE name = "async_update" ->
            IF result.t # "dict" THEN [obj |-> obj, raised |-> "AttributeError"]
            ELSE LET subdevices_states == DictGet(result, PyStr("all"))
                 IN IF subdevices_states.t # "list" THEN [obj |-> obj, raised |-> "TypeError"]
                    ELSE UpdateFromStates(subdevices_states.v, o, obj)
      [] name = "async_turn_off" ->
            [obj |-> [obj EXCEPT !.togglex = DictSet(@, PyStr("onoff"), PyInt(0))],
             raised |-> "no"]
      [] name = "async_turn_on" ->
            [obj |-> [obj EXCEPT !.togglex = DictSet(@, PyStr("onoff"), PyInt(1))],
             raised |-> "no"]
      [] name = "async_set_mode" ->
            [obj |-> [obj EXCEPT !.mode = DictSet(@, PyStr("state"), arg)],
             raised |-> "no"]
      [] name = "async_set_target_temperature" ->
            [obj |-> [obj EXCEPT !.temperature =
                                    DictSet(@, PyStr("currentSet"), PyInt(arg.v * 10))],
             raised |-> "no"]
      [] name = "async_set_preset_temperature" ->
            [obj |-> [obj EXCEPT !.temperature =
                                    DictSet(@, arg.v[1], PyInt(arg.v[2].v * 10))],
             raised |-> "no"]

\* a sub-device whose _execute_command is the one it inherits from BaseDevice
SubDeviceExecuteCommandInherited(c, o) ==
    /\ \E r \in RandomStrings, ts \in Timestamps :
          async_execute_cmd(c, "H1", "GET", UPDATE_ALL_NAMESPACE(o),
                            IdList("all", SubdeviceId(o), <<>>), r, ts, {})
    /\ coroutines' = [coroutines EXCEPT ![c] =
                         [name |-> "_execute_command", self |-> o, arg |-> PyNone,
                          pc |-> call'[c].pc]]
    /\ UNCHANGED <<initialized, connected, loop_ready, nframes, loop_exceptions,
                   transport_exceptions, registry, door_open, error_acked, handshake,
                   api, codec, objects, sub_devices, discovery>>

\* GenericSubDevice._execute_command and its overrides in Ms100Sensor and
\* Mts100v3Valve, called on the sub-device itself
SubDeviceExecuteCommand(c, o) ==
    /\ c = ncalls + 1
    /\ c \in Calls
    /\ ncalls' = c
    /\ coroutines' = [coroutines EXCEPT ![c] =
                         [name |-> "_execute_command", self |-> o, arg |-> PyNone,
                          pc |-> "NotImplementedError"]]
    /\ UNCHANGED <<initialized, connected, pending_messages_futures, futures, call,
                   loop_ready, nframes, loop_exceptions, transport_exceptions, logged,
                   registry, door_open, error_acked, handshake, api, codec,
                   objects, sub_devices, sent, discovery>>

\* an operation of a sub-device as far as its await: the request goes to
\* self._hub._execute_command, which is BaseDevice._execute_command of the hub
\* and calls async_execute_cmd with the uuid of the hub
SubDeviceOperation(c, o, name, arg) ==
    LET req == Request(name, o, arg)
        no_namespace == name = "async_update" /\ UPDATE_ALL_NAMESPACE(o) = "None"
    IN /\ IF req.raised # "no"
          THEN /\ c = ncalls + 1
               /\ c \in Calls
               /\ ncalls' = c
               /\ coroutines' = [coroutines EXCEPT ![c] =
                                    [name |-> name, self |-> o, arg |-> arg,
                                     pc |-> req.raised]]
               /\ UNCHANGED <<pending_messages_futures, futures, call, logged, sent>>
          ELSE /\ \E r \in RandomStrings, ts \in Timestamps :
                     async_execute_cmd(c, "H1", req.method, req.namespace, req.payload,
                                       r, ts,
                                       IF no_namespace THEN {"NoGetAllNamespace"} ELSE {})
               /\ coroutines' = [coroutines EXCEPT ![c] =
                                    [name |-> name, self |-> o, arg |-> arg,
                                     pc |-> IF call'[c].pc = "waiting" THEN "awaiting"
                                            ELSE call'[c].pc]]
       /\ UNCHANGED <<initialized, connected, loop_ready, nframes, loop_exceptions,
                      transport_exceptions, registry, door_open, error_acked, handshake,
                      api, codec, objects, sub_devices, discovery>>

\* the operation after its await: the command ended, with a result or with
\* an exception that the operation lets through
Resumed(c, self, after) ==
    /\ objects' = [objects EXCEPT ![self] = after.obj]
    /\ coroutines' = [coroutines EXCEPT ![c].pc =
                         IF after.raised = "no" THEN "done" ELSE after.raised]

\* an operation that updates the local state whatever the command's outcome
SubDeviceResumeUpdatingAnyway(c) ==
    /\ coroutines[c].pc = "awaiting"
    /\ wait_for_outcome(c) \/ wait_for_timeout(c)
    /\ IF call'[c].pc # "returned"
       THEN /\ coroutines' = [coroutines EXCEPT ![c].pc = call'[c].pc]
            /\ objects' = [objects EXCEPT ![coroutines[c].self] =
                              AfterCommand(coroutines[c].name, coroutines[c].self,
                                           coroutines[c].arg, @, EmptyDict).obj]
       ELSE Resumed(c, coroutines[c].self,
                    AfterCommand(coroutines[c].name, coroutines[c].self, coroutines[c].arg,
                                 objects[coroutines[c].self], call'[c].result))
    /\ UNCHANGED <<initialized, connected, pending_messages_futures, ncalls, loop_ready,
                   nframes, loop_exceptions, transport_exceptions, registry, door_open,
                   error_acked, handshake, api, codec, sub_devices, sent, discovery>>

SubDeviceResume(c) ==
    /\ coroutines[c].pc = "awaiting"
    /\ wait_for_outcome(c) \/ wait_for_timeout(c)
    /\ IF call'[c].pc # "returned"
       THEN /\ coroutines' = [coroutines EXCEPT ![c].pc = call'[c].pc]
            /\ UNCHANGED objects
       ELSE Resumed(c, coroutines[c].self,
                    AfterCommand(coroutines[c].name, coroutines[c].self, coroutines[c].arg,
                                 objects[coroutines[c].self], call'[c].result))
    /\ UNCHANGED <<initialized, connected, pending_messages_futures, ncalls, loop_ready,
                   nframes, loop_exceptions, transport_exceptions, registry, door_open,
                   error_acked, handshake, api, codec, sub_devices, sent, discovery>>

\* the states a hub reports for its sub-devices
ValveState(subdevice_id, status, onoff) ==
    PyDict(<< <<PyStr("id"), PyStr(subdevice_id)>>,
              <<PyStr("scheduleBMode"), PyInt(6)>>,
              <<PyStr("online"), PyDict(<< <<PyStr("status"), PyInt(status)>>,
                                           <<PyStr("lastActiveTime"), PyInt(5)>> >>)>>,
              <<PyStr("togglex"), PyDict(<< <<PyStr("onoff"), PyInt(onoff)>> >>)>> >>)
SensorState(subdevice_id, status) ==
    PyDict(<< <<PyStr("id"), PyStr(subdevice_id)>>,
              <<PyStr("online"), PyDict(<< <<PyStr("status"), PyInt(status)>> >>)>>,
              <<PyStr("temperature"), PyDict(<< <<PyStr("latest"), PyInt(215)>> >>)>> >>)
AllOf(states) == PyDict(<< <<PyStr("all"), PyList(states)>> >>)

\* the answers of the hub to a refresh: the state asked for, alone or after
\* that of another sub-device, the state of another sub-device only, none
HubAnswers ==
    {AllOf(<<ValveState("S1", 1, 1)>>),
     AllOf(<<ValveState("S9", 1, 0), ValveState("S1", 2, 1)>>),
     AllOf(<<SensorState("S2", 1)>>),
     AllOf(<<ValveState("S9", 1, 0)>>),
     AllOf(<<>>)}

\* the acknowledgements of hub H1
HubAckFrames ==
    {DeviceFrame(ClientResponseTopic, "H1", r, "GETACK", "HUB_MTS100_ALL", p) :
        r \in RandomStrings, p \in HubAnswers}
      \cup {DeviceFrame(ClientResponseTopic, "H1", r, "SETACK", "HUB_TOGGLEX", EmptyDict) :
               r \in RandomStrings}
      \cup {DeviceFrame(ClientResponseTopic, "H1", r, "ERROR", "HUB_TOGGLEX", EmptyDict) :
               r \in RandomStrings}

MqttHubAck == \E frame \in HubAckFrames : OnMessage(frame)

\* the hub is enrolled with the status the HTTP API reported for it, its
\* sub-devices are built and none is registered yet
HubInit ==
    /\ ManagerInit
    /\ codec = PyNone
    /\ \E s \in OnlineStatuses :
          /\ registry = <<HubDevice("H1", s)>>
          /\ objects = [o \in {"hub"} \cup SubDevices |->
                           NewObject(IF o = "hub" THEN s ELSE "UNKNOWN")]
    /\ sub_devices = <<>>
    /\ sent = <<>>
    /\ coroutines = [c \in Calls |-> IdleCoroutine]
    /\ discovery = <<>>

HubNext ==
    \/ AsyncInit
    \/ OnConnect
    \/ OnSubscribe
    \/ AsyncInitReady
    \/ \E o \in SubDevices : \E operation \in Operations(o) :
          SubDeviceOperation(1, o, operation[1], operation[2])
    \/ \E o \in SubDevices : SubDeviceExecuteCommand(1, o)
    \/ SubDeviceResume(1)
    \/ MqttHubAck
    \/ LoopRun

HubSpec == HubInit /\ [][HubNext]_vars

(***************************************************************************)
(* Registration alone: the sub-devices built for a hub are handed to it.   *)
(***************************************************************************)
RegistrationNext == \E o \in SubDevices : RegisterSubdevice(o)

RegistrationSpec == HubInit /\ [][RegistrationNext]_vars

(***************************************************************************)
(* Notifications alone: handle_push_notification is called on one device   *)
(* object with every kind of notification.                                 *)
(***************************************************************************)
\* the objects notified: an opener that also tracks its online status, a plug
\* that only tracks its online status, a valve and a sensor
NotifiedObjects == {"opener", "plug", "valve", "sensor"}

\* GarageOpenerMixin.is_open
is_open(obj, channel) == obj.doors[channel]

Door(channel, open) ==
    PyDict(<< <<PyStr("channel"), PyInt(channel)>>, <<PyStr("open"), PyInt(open)>> >>)
DoorStates(doors) == PyDict(<< <<PyStr("state"), PyList(doors)>> >>)
OnlineData(status) ==
    PyDict(<< <<PyStr("online"), PyDict(<< <<PyStr("status"), PyInt(status)>> >>)>> >>)
TempHum(synced_time, temperature) ==
    PyDict(<< <<PyStr("id"), PyStr("S2")>>,
              <<PyStr("latestTemperature"), PyInt(temperature)>>,
              <<PyStr("latestHumidity"), PyInt(500)>>,
              <<PyStr("syncedTime"), PyInt(synced_time)>>,
              <<PyStr("sample"),
                PyList(<< PyList(<<PyInt(temperature), PyInt(500), PyInt(synced_time - 1),
                                   PyInt(synced_time), PyInt(0)>>) >>)>> >>)

\* the notifications: a namespace and the data that come with it
Notifications ==
    ({"SYSTEM_ONLINE"} \X {OnlineData(1), OnlineData(2),
                           PyDict(<< <<PyStr("online"), OnlineData(1)>> >>), EmptyDict})
      \cup ({"GARAGE_DOOR_STATE"} \X
               {DoorStates(<<Door(0, 1)>>), DoorStates(<<Door(0, 0), Door(1, 1)>>),
                DoorStates(<<Door(1, 0)>>), DoorStates(<<>>), EmptyDict})
      \cup ({"HUB_ONLINE"} \X
               {PyDict(<< <<PyStr("id"), PyStr("S1")>>, <<PyStr("status"), PyInt(2)>> >>)})
      \cup ({"HUB_TOGGLEX"} \X
               {PyDict(<< <<PyStr("id"), PyStr("S1")>>, <<PyStr("onoff"), PyInt(1)>> >>)})
      \cup ({"HUB_MTS100_ALL"} \X {ValveState("S1", 1, 0)})
      \cup ({"HUB_SENSOR_ALL"} \X {SensorState("S2", 1)})
      \cup ({"HUB_SENSOR_TEMPHUM"} \X {TempHum(2, 215), TempHum(1, 190)})
      \cup ({"HUB_SENSOR_ALERT"} \X {PyDict(<< <<PyStr("id"), PyStr("S2")>> >>)})
      \cup ({"SYSTEM_ALL"} \X {EmptyDict})

\* the object after the call, and what the call returned or raised
Notified(o, namespace, data, res) ==
    /\ objects' = [objects EXCEPT ![o] = res.obj]
    /\ api' = ApiCall("handle_push_notification", <<o, namespace, data>>, res.raised,
                      [handled |-> res.handled, visited |-> res.visited])

Notify(o, namespace, data) ==
    /\ o \in DOMAIN objects
    /\ Notified(o, namespace, data,
                HandlePushNotification(Chain(ClassOf(o)), objects[o], namespace, data))
    /\ UNCHANGED <<initialized, connected, pending_messages_futures, futures, call,
                   ncalls, loop_ready, nframes, loop_exceptions, transport_exceptions,
                   logged, registry, door_open, error_acked, handshake, codec,
                   sub_devices, sent, coroutines, discovery>>

\* one object, as its __init__ leaves it, in a program that runs in some zone
NotifyInit ==
    /\ ManagerInit
    /\ registry = <<>>
    /\ codec = PyNone
    /\ \E o \in NotifiedObjects, utcoffset \in UtcOffsets :
          objects = [x \in {o} |-> [NewObject("UNKNOWN") EXCEPT !.utcoffset = utcoffset]]
    /\ sub_devices = <<>>
    /\ sent = <<>>
    /\ coroutines = <<>>
    /\ discovery = <<>>

NotifyNext ==
    \E o \in NotifiedObjects, n \in Notifications : Notify(o, n[1], n[2])

NotifySpec == NotifyInit /\ [][NotifyNext]_vars

(***************************************************************************)
(* Channels: a device is built from a list of channel descriptions and     *)
(* then asked for a channel by index or by name.                           *)
(***************************************************************************)
MaxChannels == 3

\* ChannelInfo.__init__
ChannelInfo(index, name, channel_type, is_master_channel) ==
    [index |-> index, name |-> name, type |-> channel_type, master |-> is_master_channel]

\* BaseDevice._parse_channels: the index of a channel is its place in the list
_parse_channels(channel_data) ==
    IF channel_data = PyNone THEN <<>>
    ELSE [i \in 1..Len(channel_data.v) |->
             ChannelInfo(i - 1, DictGet(channel_data.v[i], PyStr("name")),
                         DictGet(channel_data.v[i], PyStr("type")), i - 1 = 0)]

\* what lookup_channel gives back: a channel, or the error it raises
Returned(value) == [raised |-> "no", value |-> value]
NotReturned(error) == [raised |-> error, value |-> PyNone]

\* a lookup that takes the first of the channels found
LookupFirstChannel(res) ==
    IF Len(res) >= 1 THEN Returned(res[1]) ELSE NotReturned("ValueError")

\* the end of lookup_channel: one channel found, or ValueError
LookupResult(res) ==
    IF Len(res) = 1 THEN Returned(res[1]) ELSE NotReturned("ValueError")

\* BaseDevice.lookup_channel
lookup_channel(self, channel_id_or_name) ==
    LookupResult(IF channel_id_or_name.t = "str"
                 THEN SelectSeq(self.channels, LAMBDA c : c.name = channel_id_or_name)
                 ELSE IF channel_id_or_name.t = "int"
                 THEN SelectSeq(self.channels, LAMBDA c : c.index = channel_id_or_name.v)
                 ELSE <<>>)

\* the descriptions of a channel: with a name, or without one
ChannelDescriptions ==
    {PyDict(<< <<PyStr("name"), PyStr(n)>>, <<PyStr("type"), PyStr("Switch")>> >>) :
        n \in {"Main", "USB"}}
      \cup {PyDict(<< <<PyStr("type"), PyStr("Switch")>> >>)}
RECURSIVE ListsUpTo(_, _)
ListsUpTo(n, S) ==
    IF n = 0 THEN {<<>>}
    ELSE ListsUpTo(n - 1, S) \cup {Append(l, x) : l \in ListsUpTo(n - 1, S), x \in S}
ChannelData == {PyNone} \cup {PyList(l) : l \in ListsUpTo(MaxChannels, ChannelDescriptions)}

\* the arguments of lookup_channel: an index, a name, or neither
ChannelArguments ==
    {PyInt(i) : i \in 0..MaxChannels} \cup {PyStr(n) : n \in {"Main", "USB", "Other"}}
      \cup {PyNone}

LookedUp(o, channel_id_or_name, res) ==
    api' = ApiCall("lookup_channel", <<o, channel_id_or_name>>, res.raised, res.value)

LookupChannel(o, channel_id_or_name) ==
    /\ o \in DOMAIN objects
    /\ LookedUp(o, channel_id_or_name, lookup_channel(objects[o], channel_id_or_name))
    /\ UNCHANGED <<initialized, connected, pending_messages_futures, futures, call,
                   ncalls, loop_ready, nframes, loop_exceptions, transport_exceptions,
                   logged, registry, door_open, error_acked, handshake, codec, device_vars>>

\* a device as BaseDevice.__init__ leaves it
ChannelInit ==
    /\ ManagerInit
    /\ registry = <<>>
    /\ codec = PyNone
    /\ \E channel_data \in ChannelData :
          objects = [x \in {"plug"} |->
                        [NewObject("UNKNOWN") EXCEPT !.channels = _parse_channels(channel_data)]]
    /\ sub_devices = <<>>
    /\ sent = <<>>
    /\ coroutines = <<>>
    /\ discovery = <<>>

ChannelNext == \E a \in ChannelArguments : LookupChannel("plug", a)

ChannelSpec == ChannelInit /\ [][ChannelNext]_vars

(***************************************************************************)
(* Device discovery: the coroutine async_device_discovery, the tasks it    *)
(* creates and the event loop that runs them.  loop_ready is the loop's    *)
(* queue of ready callbacks, run first in, first out: the first step of a  *)
(* task (create_task), the resumption of a coroutine whose future is done, *)
(* and the done-callbacks gather puts on the tasks it waits for.           *)
(***************************************************************************)
MaxHttpDevices == 2
MaxHttpSubdevices == 2

\* HttpDeviceInfo: uuid and device_type
HttpDeviceInfo(uuid, device_type) == [uuid |-> uuid, type |-> device_type]
HttpDeviceInfos ==
    {HttpDeviceInfo("H1", "msh300"), HttpDeviceInfo("H2", "msh300"),
     HttpDeviceInfo("U1", "msg100")}
\* what the HTTP API lists: every device once
HttpDeviceLists ==
    {l \in ListsUpTo(MaxHttpDevices, HttpDeviceInfos) :
        \A i, j \in 1..Len(l) : l[i] = l[j] => i = j}

\* HttpSubdeviceInfo: sub_device_id and sub_device_name
HttpSubdeviceInfo(sub_device_id, sub_device_name) ==
    [sub_device_id |-> sub_device_id, sub_device_name |-> sub_device_name]
HttpSubdeviceInfos ==
    {HttpSubdeviceInfo("S1", "valve"), HttpSubdeviceInfo("S2", "valve"),
     HttpSubdeviceInfo("S1", "valve-2")}
\* what the HTTP API answers for a hub: any list, one that names a sub-device
\* twice included
HttpSubdeviceLists == ListsUpTo(MaxHttpSubdevices, HttpSubdeviceInfos)

\* build_meross_device: a hub for the hub's device type, an opener otherwise
build_meross_device(http_device_info) ==
    IF http_device_info.type = "msh300"
    THEN HubDevice(http_device_info.uuid, "ONLINE")
    ELSE Device(http_device_info.uuid)

\* build_meross_subdevice
build_meross_subdevice(http_subdevice_info, hub_uuid) ==
    [GenericSubDevice(HubDevice(hub_uuid, "ONLINE"), http_subdevice_info.sub_device_id,
                      "UNKNOWN")
        EXCEPT !.name = http_subdevice_info.sub_device_name]

\* async_device_discovery before it is called
IdleDiscovery ==
    [pc |-> "idle", update_subdevice_status |-> TRUE, http |-> "none",
     http_result |-> <<>>, tasks |-> <<>>, subdevtasks |-> <<>>, k |-> 0,
     hubs |-> <<>>, nfinished |-> 0, outer |-> "none", updated |-> <<>>,
     raised |-> "no", error |-> "none"]

\* what a stretch of the coroutine leaves: its new state and the callbacks it
\* handed to the loop
Stretch(d, callbacks) == [d |-> d, callbacks |-> callbacks]

\* for h in hubs: await h.async_update(); the async_update of HubDevice is
\* BaseDevice's, which never suspends
full_refresh(d) ==
    [d EXCEPT !.updated = IF d.update_subdevice_status THEN d.hubs ELSE <<>>,
              !.pc = "done"]

\* a gather that returns a finished future when all its children are done
GatherTasksEagerly(d, callbacks) == Stretch(full_refresh(d), callbacks)

\* enrolled_subdevices = await asyncio.gather(*tasks): the children are the
\* device tasks, all done by now; gather puts a done-callback on each, which
\* is queued at once, and the coroutine waits for the last of them.  Without
\* children the future gather returns is done and the coroutine goes on.
GatherTasks(d, callbacks) ==
    IF d.tasks = <<>> THEN Stretch(full_refresh(d), callbacks)
    ELSE Stretch([d EXCEPT !.pc = "gather_subdevices", !.nfinished = 0,
                           !.outer = "pending"],
                 callbacks \o [i \in 1..Len(d.tasks) |-> [op |-> "done_callback", id |-> i]])

\* isinstance(d, HubDevice) for the result of a device task
IsHub(task) == task.state = "returned" /\ task.hdevice.type = "msh300"

\* for d in enrolled_devices: from the k-th on, up to the next await
HandleHubs(d, k, callbacks) ==
    IF \E i \in k..Len(d.tasks) : IsHub(d.tasks[i])
    THEN Stretch([d EXCEPT !.pc = "list_hub_subdevices",
                           !.k = CHOOSE i \in k..Len(d.tasks) :
                                    /\ IsHub(d.tasks[i])
                                    /\ \A j \in k..(i - 1) : ~IsHub(d.tasks[j]),
                           !.hubs = Append(@, d.tasks[CHOOSE i \in k..Len(d.tasks) :
                                                /\ IsHub(d.tasks[i])
                                                /\ \A j \in k..(i - 1) : ~IsHub(d.tasks[j])
                                             ].hdevice.uuid),
                           !.http = "pending"],
                 callbacks)
    ELSE GatherTasks([d EXCEPT !.k = 0], callbacks)

\* tasks.append(create_task(...)) for every new device, then the first gather
CreateTasks(d, new_http_devices) ==
    IF new_http_devices = <<>> THEN HandleHubs(d, 1, <<>>)
    ELSE Stretch([d EXCEPT !.tasks = [i \in 1..Len(new_http_devices) |->
                                         [hdevice |-> new_http_devices[i],
                                          state |-> "pending", outcome |-> "none"]],
                           !.pc = "gather_devices", !.nfinished = 0, !.outer = "pending"],
                 [i \in 1..Len(new_http_devices) |-> [op |-> "step", id |-> i]])

\* subdevtasks.append(create_task(...)) for every sub-device the hub has
CreateSubdeviceTasks(d, subdevs) ==
    [d EXCEPT !.subdevtasks =
                 @ \o [i \in 1..Len(subdevs) |->
                          [sd |-> subdevs[i], hub |-> d.tasks[d.k].hdevice.uuid,
                           state |-> "pending"]]]
SubdeviceSteps(d, subdevs) ==
    [i \in 1..Len(subdevs) |-> [op |-> "substep", id |-> Len(d.subdevtasks) + i]]

\* the coroutine has run up to its next await
Continue(stretch) ==
    /\ discovery' = stretch.d
    /\ loop_ready' = Tail(loop_ready) \o stretch.callbacks

\* the registry's devices that are no sub-devices and that HTTP did not list
InconsistentLocalDevices(http_devices) ==
    {d \in Enrolled :
        /\ "GenericSubDevice" \notin d.classes
        /\ \A i \in 1..Len(http_devices) : http_devices[i].uuid # d.uuid}

\* async_device_discovery up to its first await
AsyncDeviceDiscovery ==
    /\ discovery.pc = "idle"
    /\ \E update_subdevice_status \in BOOLEAN :
          discovery' = [discovery EXCEPT !.pc = "list_devices", !.http = "pending",
                                         !.update_subdevice_status = update_subdevice_status]
    /\ UNCHANGED <<initialized, connected, pending_messages_futures, futures, call,
                   ncalls, loop_ready, nframes, loop_exceptions, transport_exceptions,
                   logged, registry, door_open, error_acked, handshake, api, codec,
                   objects, sub_devices, sent, coroutines>>

\* the answer of the HTTP API arrives and the coroutine is ready to go on
HttpAnswered(result) ==
    /\ discovery.http = "pending"
    /\ discovery' = [discovery EXCEPT !.http = "answered", !.http_result = result]
    /\ loop_ready' = Append(loop_ready, [op |-> "wakeup", id |-> 0])
    /\ UNCHANGED <<initialized, connected, pending_messages_futures, futures, call,
                   ncalls, nframes, loop_exceptions, transport_exceptions,
                   logged, registry, door_open, error_acked, handshake, api, codec,
                   objects, sub_devices, sent, coroutines>>

HttpListDevices ==
    /\ discovery.pc = "list_devices"
    /\ \E http_devices \in HttpDeviceLists : HttpAnswered(http_devices)

HttpListHubSubdevices ==
    /\ discovery.pc = "list_hub_subdevices"
    /\ \E subdevs \in HttpSubdeviceLists : HttpAnswered(subdevs)

\* async_device_discovery from one await to the next
DiscoveryResume ==
    /\ loop_ready # <<>>
    /\ Head(loop_ready) = [op |-> "wakeup", id |-> 0]
    /\ \/ /\ discovery.pc = "list_devices"
          /\ IF \E i \in 1..Len(discovery.http_result) :
                   lookup_base_by_uuid(discovery.http_result[i].uuid).value # None
             THEN \* update_from_http_state raises
                  /\ discovery' = [discovery EXCEPT !.pc = "raised", !.raised = "Exception"]
                  /\ loop_ready' = Tail(loop_ready)
                  /\ logged' = logged \cup {"UpdatingState"}
                        \cup (IF lookup_base_by_uuid(discovery.http_result[1].uuid).value = None
                              THEN {"DiscoveredNew"} ELSE {})
             ELSE /\ Continue(CreateTasks(discovery, discovery.http_result))
                  /\ logged' = logged
                        \cup (IF discovery.http_result # <<>> THEN {"DiscoveredNew"} ELSE {})
                        \cup (IF InconsistentLocalDevices(discovery.http_result) # {}
                              THEN {"NotReportedByHttp"} ELSE {})
       \/ /\ discovery.pc = "gather_devices"
          /\ IF discovery.outer = "exception"
             THEN /\ discovery' = [discovery EXCEPT !.pc = "raised",
                                                    !.raised = discovery.error]
                  /\ loop_ready' = Tail(loop_ready)
             ELSE Continue(HandleHubs(discovery, 1, <<>>))
          /\ UNCHANGED logged
       \/ /\ discovery.pc = "list_hub_subdevices"
          /\ Continue(HandleHubs(CreateSubdeviceTasks(discovery, discovery.http_result),
                                 discovery.k + 1,
                                 SubdeviceSteps(discovery, discovery.http_result)))
          /\ UNCHANGED logged
       \/ /\ discovery.pc = "gather_subdevices"
          /\ discovery' = full_refresh(discovery)
          /\ loop_ready' = Tail(loop_ready)
          /\ UNCHANGED logged
    /\ UNCHANGED <<initialized, connected, pending_messages_futures, futures, call,
                   ncalls, nframes, loop_exceptions, transport_exceptions,
                   registry, door_open, error_acked, handshake, api, codec,
                   objects, sub_devices, sent, coroutines>>

\* a device task is done: the done-callback gather put on it is queued
TaskDone(i, state, error) ==
    /\ discovery' = [discovery EXCEPT !.tasks[i].state = state, !.tasks[i].outcome = error]
    /\ loop_ready' = Append(Tail(loop_ready), [op |-> "done_callback", id |-> i])

\* _async_enroll_new_http_dev up to its await: async_execute_cmd raises at
\* once when the manager is not connected, and waits for the answer otherwise
DeviceTaskStep ==
    /\ loop_ready # <<>>
    /\ Head(loop_ready).op = "step"
    /\ IF ~connected
       THEN /\ TaskDone(Head(loop_ready).id, "raised", "UnconnectedError")
            /\ logged' = logged \cup {"NotConnected"}
       ELSE /\ discovery' = [discovery EXCEPT !.tasks[Head(loop_ready).id].state = "waiting"]
            /\ loop_ready' = Tail(loop_ready)
            /\ UNCHANGED logged
    /\ UNCHANGED <<initialized, connected, pending_messages_futures, futures, call,
                   ncalls, nframes, loop_exceptions, transport_exceptions,
                   registry, door_open, error_acked, handshake, api, codec,
                   objects, sub_devices, sent, coroutines>>

\* what happens to the command of a device task: the abilities arrive, the
\* wait times out, or an ERROR answer arrives.  _on_message raises on an ERROR
\* answer before it resolves the future (MessagePayloadAttribute), so the
\* command goes on waiting and can only time out
CommandOutcomes == {"ability", "CommandTimeoutError", "ERROR"}

CommandOutcome(i, outcome) ==
    /\ i \in 1..Len(discovery.tasks)
    /\ discovery.tasks[i].state = "waiting"
    /\ \/ discovery.tasks[i].outcome = "none"
       \/ discovery.tasks[i].outcome = "ERROR" /\ outcome = "CommandTimeoutError"
    /\ discovery' = [discovery EXCEPT !.tasks[i].outcome = outcome]
    /\ IF outcome = "ERROR"
       THEN /\ transport_exceptions' = transport_exceptions \cup {"AttributeError"}
            /\ UNCHANGED loop_ready
       ELSE /\ loop_ready' = Append(loop_ready, [op |-> "wakeup", id |-> i])
            /\ UNCHANGED transport_exceptions
    /\ UNCHANGED <<initialized, connected, pending_messages_futures, futures, call,
                   ncalls, nframes, loop_exceptions,
                   logged, registry, door_open, error_acked, handshake, api, codec,
                   objects, sub_devices, sent, coroutines>>

\* DeviceRegistry.enroll_device on the registry
Enrolling(device) ==
    /\ registry' = IF device.internal_id \in EnrolledIds THEN registry
                   ELSE Append(registry, device)
    /\ logged' = IF device.internal_id \in EnrolledIds
                 THEN logged \cup {"AlreadyEnrolled"} ELSE logged

\* an enrolment that lets the timeout of its command through
DeviceTaskEndsUncaught(i, task) ==
    IF task.outcome = "ability"
    THEN /\ Enrolling(build_meross_device(task.hdevice))
         /\ TaskDone(i, "returned", "ability")
    ELSE /\ TaskDone(i, "raised", task.outcome)
         /\ UNCHANGED <<registry, logged>>

\* _async_enroll_new_http_dev after its await: the command returned the
\* abilities or raised CommandTimeoutError, which is caught
DeviceTaskEnds(i, task) ==
    IF task.outcome = "ability"
    THEN /\ Enrolling(build_meross_device(task.hdevice))
         /\ TaskDone(i, "returned", "ability")
    ELSE /\ logged' = logged \cup {"NotEnrolled"}
         /\ TaskDone(i, "returned_none", "CommandTimeoutError")
         /\ UNCHANGED registry

DeviceTaskResume ==
    /\ loop_ready # <<>>
    /\ Head(loop_ready).op = "wakeup"
    /\ Head(loop_ready).id > 0
    /\ DeviceTaskEnds(Head(loop_ready).id, discovery.tasks[Head(loop_ready).id])
    /\ UNCHANGED <<initialized, connected, pending_messages_futures, futures, call,
                   ncalls, nframes, loop_exceptions, transport_exceptions,
                   door_open, error_acked, handshake, api, codec,
                   objects, sub_devices, sent, coroutines>>

\* the sub-devices registered on a hub
RegisteredOn(hub_uuid) ==
    {sub_devices[i][2].subdevice_id :
        i \in {n \in 1..Len(sub_devices) : sub_devices[n][2].uuid = hub_uuid}}

\* an enrolment whose hub takes the new object in place of the one it holds
SubdeviceEnrolledReplacing(j, subdevice) ==
    /\ sub_devices' =
          IF subdevice.subdevice_id \in RegisteredOn(subdevice.uuid)
          THEN [i \in 1..Len(sub_devices) |->
                   IF /\ sub_devices[i][1] = subdevice.subdevice_id
                      /\ sub_devices[i][2].uuid = subdevice.uuid
                   THEN <<subdevice.subdevice_id, subdevice>> ELSE sub_devices[i]]
          ELSE Append(sub_devices, <<subdevice.subdevice_id, subdevice>>)
    /\ Enrolling(subdevice)
    /\ discovery' = [discovery EXCEPT !.subdevtasks[j].state = "done"]
    /\ loop_ready' = Tail(loop_ready)

\* _async_enroll_new_http_subdev: it has no await and ends in its first step
SubdeviceEnrolled(j, subdevice) ==
    /\ IF subdevice.subdevice_id \in RegisteredOn(subdevice.uuid)
       THEN /\ UNCHANGED sub_devices
            /\ registry' = IF subdevice.internal_id \in EnrolledIds THEN registry
                           ELSE Append(registry, subdevice)
            /\ logged' = logged \cup {"AlreadyRegistered"}
                            \cup (IF subdevice.internal_id \in EnrolledIds
                                  THEN {"AlreadyEnrolled"} ELSE {})
       ELSE /\ sub_devices' = Append(sub_devices, <<subdevice.subdevice_id, subdevice>>)
            /\ Enrolling(subdevice)
    /\ discovery' = [discovery EXCEPT !.subdevtasks[j].state = "done"]
    /\ loop_ready' = Tail(loop_ready)

SubdeviceTaskStep ==
    /\ loop_ready # <<>>
    /\ Head(loop_ready).op = "substep"
    /\ SubdeviceEnrolled(Head(loop_ready).id,
                         build_meross_subdevice(
                             discovery.subdevtasks[Head(loop_ready).id].sd,
                             discovery.subdevtasks[Head(loop_ready).id].hub))
    /\ UNCHANGED <<initialized, connected, pending_messages_futures, futures, call,
                   ncalls, nframes, loop_exceptions, transport_exceptions,
                   door_open, error_acked, handshake, api, codec,
                   objects, sent, coroutines>>

\* the done-callback of gather: the first child that raised ends the gather
\* with its exception, the last child to be counted ends it with the results
GatherDoneCallback ==
    /\ loop_ready # <<>>
    /\ Head(loop_ready).op = "done_callback"
    /\ IF discovery.outer # "pending"
       THEN /\ discovery' = [discovery EXCEPT !.nfinished = @ + 1]
            /\ loop_ready' = Tail(loop_ready)
       ELSE IF discovery.tasks[Head(loop_ready).id].state = "raised"
       THEN /\ discovery' = [discovery EXCEPT
                                !.nfinished = @ + 1, !.outer = "exception",
                                !.error = discovery.tasks[Head(loop_ready).id].outcome]
            /\ loop_ready' = Append(Tail(loop_ready), [op |-> "wakeup", id |-> 0])
       ELSE IF discovery.nfinished + 1 = Len(discovery.tasks)
       THEN /\ discovery' = [discovery EXCEPT !.nfinished = @ + 1, !.outer = "result"]
            /\ loop_ready' = Append(Tail(loop_ready), [op |-> "wakeup", id |-> 0])
       ELSE /\ discovery' = [discovery EXCEPT !.nfinished = @ + 1]
            /\ loop_ready' = Tail(loop_ready)
    /\ UNCHANGED <<initialized, connected, pending_messages_futures, futures, call,
                   ncalls, nframes, loop_exceptions, transport_exceptions,
                   logged, registry, door_open, error_acked, handshake, api, codec,
                   objects, sub_devices, sent, coroutines>>

\* a manager that is connected or not, with nothing enrolled or with one
\* device enrolled before: an opener or a hub the HTTP API knows, or an
\* opener it does not know
DiscoveryInit ==
    /\ initialized = TRUE
    /\ connected \in BOOLEAN
    /\ pending_messages_futures = [m \in MsgIds |-> NoFuture]
    /\ futures = [c \in Calls |-> [state |-> "NONE", value |-> PyNone]]
    /\ call = [c \in Calls |-> IdleCall]
    /\ ncalls = 0
    /\ loop_ready = <<>>
    /\ nframes = 0
    /\ loop_exceptions = {}
    /\ transport_exceptions = {}
    /\ logged = {}
    /\ door_open = [u \in Uuids |-> [ch \in Channels |-> "None"]]
    /\ error_acked = {}
    /\ handshake = IdleHandshake
    /\ api = NoApiCall
    /\ codec = PyNone
    /\ registry \in {<<>>, <<Device("U2")>>, <<Device("U1")>>, <<HubDevice("H1", "ONLINE")>>}
    /\ objects = <<>>
    /\ sub_devices = <<>>
    /\ sent = <<>>
    /\ coroutines = <<>>
    /\ discovery = IdleDiscovery

DiscoveryNext ==
    \/ AsyncDeviceDiscovery
    \/ HttpListDevices
    \/ HttpListHubSubdevices
    \/ DiscoveryResume
    \/ DeviceTaskStep
    \/ \E i \in 1..MaxHttpDevices, outcome \in CommandOutcomes : CommandOutcome(i, outcome)
    \/ DeviceTaskResume
    \/ SubdeviceTaskStep
    \/ GatherDoneCallback

DiscoverySpec == DiscoveryInit /\ [][DiscoveryNext]_vars

(***************************************************************************)
(* Disconnects: the handler _on_disconnect, the looper thread it may stop, *)
(* and the reconnection the looper makes while it runs.                    *)
(***************************************************************************)
MaxDrops == 1

\* the calls that wait on a future nobody has resolved
PendingCalls == {c \in Calls : call[c].pc = "waiting" /\ futures[c].state = "PENDING"}

\* a handler that never stops the looper
OnDisconnectKeepsLooping(rc) ==
    /\ connected
    /\ handshake.drops < MaxDrops
    /\ connected' = FALSE
    /\ logged' = logged \cup {"Disconnected"}
    /\ handshake' = [handshake EXCEPT
                        !.rc = rc, !.drops = @ + 1,
                        !.pending_at_drop =
                            IF rc # "MQTT_ERR_SUCCESS" /\ ~handshake.auto_reconnect
                            THEN PendingCalls ELSE @,
                        !.queued_at_drop =
                            IF rc # "MQTT_ERR_SUCCESS" /\ ~handshake.auto_reconnect
                            THEN {c \in PendingCalls : ResolutionQueued(c)} ELSE @]
    /\ UNCHANGED <<initialized, pending_messages_futures, futures, call, ncalls,
                   loop_ready, nframes, loop_exceptions, transport_exceptions,
                   registry, door_open, error_acked, api, codec, device_vars>>

\* _on_disconnect, in the mqtt thread: is_connected() is false by now; the
\* looper is stopped only when the disconnect was not asked for and
\* auto_reconnect is not set
OnDisconnect(rc) ==
    /\ connected
    /\ handshake.drops < MaxDrops
    /\ connected' = FALSE
    /\ logged' = logged \cup {"Disconnected"}
                    \cup (IF rc = "MQTT_ERR_SUCCESS" THEN {}
                          ELSE IF ~handshake.auto_reconnect THEN {"StoppingLoop"}
                          ELSE {"WontStopLoop"})
    /\ handshake' = [handshake EXCEPT
                        !.rc = rc, !.drops = @ + 1,
                        !.looping = IF rc # "MQTT_ERR_SUCCESS" /\ ~handshake.auto_reconnect
                                    THEN FALSE ELSE @,
                        !.pending_at_drop =
                            IF rc # "MQTT_ERR_SUCCESS" /\ ~handshake.auto_reconnect
                            THEN PendingCalls ELSE @,
                        !.queued_at_drop =
                            IF rc # "MQTT_ERR_SUCCESS" /\ ~handshake.auto_reconnect
                            THEN {c \in PendingCalls : ResolutionQueued(c)} ELSE @]
    /\ UNCHANGED <<initialized, pending_messages_futures, futures, call, ncalls,
                   loop_ready, nframes, loop_exceptions, transport_exceptions,
                   registry, door_open, error_acked, api, codec, device_vars>>

Disconnect == \E rc \in {"MQTT_ERR_SUCCESS", "MQTT_ERR_CONN_LOST"} : OnDisconnect(rc)

\* the looper, still running after a connection drop, connects again:
\* _on_connect asks for the subscription once more
Reconnect ==
    /\ handshake.looping
    /\ ~connected
    /\ handshake.rc = "MQTT_ERR_CONN_LOST"
    /\ connected' = TRUE
    /\ handshake' = [handshake EXCEPT !.subscribe_sent = TRUE, !.suback = FALSE]
    /\ UNCHANGED <<initialized, pending_messages_futures, futures, call, ncalls,
                   loop_ready, nframes, loop_exceptions, transport_exceptions, logged,
                   registry, door_open, error_acked, api, codec, device_vars>>

\* a manager built with or without auto_reconnect
DropInit ==
    /\ ManagerFields
    /\ connected = FALSE
    /\ \E auto_reconnect \in BOOLEAN :
          handshake = [IdleHandshake EXCEPT !.auto_reconnect = auto_reconnect]
    /\ registry = <<>>
    /\ NoDevices
    /\ codec = PyNone

DropNext ==
    \/ AsyncInit
    \/ OnConnect
    \/ OnSubscribe
    \/ AsyncInitReady
    \/ \E c \in FairCalls, r \in RandomStrings, ts \in Timestamps :
          ExecuteCmd(c, "GET", "SYSTEM_ABILITY", EmptyDict, r, ts)
    \/ \E c \in FairCalls : Resume(c)
    \/ \E c \in FairCalls : Timeout(c)
    \/ MqttAck
    \/ LoopRun
    \/ Disconnect
    \/ Reconnect

\* the event loop keeps running whatever happens to the transport
DropSpec ==
    /\ DropInit
    /\ [][DropNext]_vars
    /\ WF_vars(LoopRun)
    /\ \A c \in FairCalls : WF_vars(Resume(c)) /\ WF_vars(Timeout(c))

(***************************************************************************)
(* async_init called more than once.                                       *)
(***************************************************************************)
MaxInitCalls == 3

\* a later call of async_init up to its await: it is refused only when
\* __initialized is already set; otherwise it connects once more, which drops
\* the connection made before, and waits on the Event unless the Event is set
AsyncInitAgain ==
    /\ handshake.pc # "idle"
    /\ Len(handshake.others) + 1 < MaxInitCalls
    /\ IF initialized
       THEN /\ handshake' = [handshake EXCEPT !.others = Append(@, "RuntimeError")]
            /\ UNCHANGED <<initialized, connected>>
       ELSE /\ handshake' = [handshake EXCEPT
                                !.others = Append(@, IF handshake.event THEN "done"
                                                     ELSE "waiting"),
                                !.event = FALSE,
                                !.connects = @ + 1,
                                !.subscribe_sent = FALSE,
                                !.suback = FALSE]
            /\ connected' = FALSE
            /\ initialized' = handshake.event
    /\ UNCHANGED <<pending_messages_futures, futures, call, ncalls, loop_ready,
                   nframes, loop_exceptions, transport_exceptions, logged, registry,
                   door_open, error_acked, api, codec, device_vars>>

\* a later call of async_init after its await
AsyncInitAgainReady ==
    /\ \E i \in 1..Len(handshake.others) :
          /\ handshake.others[i] = "woken"
          /\ handshake' = [handshake EXCEPT !.others[i] = "done", !.event = FALSE]
    /\ initialized' = TRUE
    /\ UNCHANGED <<connected, pending_messages_futures, futures, call, ncalls,
                   loop_ready, nframes, loop_exceptions, transport_exceptions, logged,
                   registry, door_open, error_acked, api, codec, device_vars>>

\* _on_connect after a later call connected again
OnConnectAgain ==
    /\ handshake.connects > 1
    /\ ~connected
    /\ handshake.looping
    /\ connected' = TRUE
    /\ handshake' = [handshake EXCEPT !.subscribe_sent = TRUE]
    /\ UNCHANGED <<initialized, pending_messages_futures, futures, call, ncalls,
                   loop_ready, nframes, loop_exceptions, transport_exceptions, logged,
                   registry, door_open, error_acked, api, codec, device_vars>>

InitNext ==
    \/ AsyncInit
    \/ AsyncInitAgain
    \/ OnConnect
    \/ OnConnectAgain
    \/ OnSubscribe
    \/ AsyncInitReady
    \/ AsyncInitAgainReady
    \/ AsyncExecuteCmd
    \/ \E c \in Calls : Timeout(c)
    \/ LoopRun

InitSpec == Init /\ [][InitNext]_vars

(***************************************************************************)
(* Properties.                                                             *)
(***************************************************************************)
Finished(c) == call[c].pc \in {"returned", "CommandError", "CommandTimeoutError"}

\* C1: once async_execute_cmd has returned or raised for a request identifier,
\* the correlation table holds no entry of that call under the identifier.
C1_EntryRemovedOnResolution ==
    \A c \in Calls :
        Finished(c) => LookupFuture(pending_messages_futures, call[c].mid) # c

\* an acknowledgement carrying the call's own identifier reached the call
AckArrived(c) ==
    \/ /\ futures[c].state = "RESULT"
       /\ MessageId(futures[c].value) = call[c].mid
       /\ Method(futures[c].value) \in {"SETACK", "GETACK"}
    \/ c \in error_acked

\* C2: a command for which no acknowledgement with its identifier arrives always
\* ends by raising CommandTimeoutError: it never stays waiting for ever, and it
\* returns a value or a protocol error only if such an acknowledgement arrived.
C2_NoAckEndsInTimeout ==
    \A c \in FairCalls :
        /\ [](call[c].pc \in {"returned", "CommandError"} => AckArrived(c))
        /\ (call[c].pc = "waiting") ~> Finished(c)

\* a command timed out although not a single frame was ever delivered
C2_Witness ==
    \E c \in Calls : call[c].pc = "CommandTimeoutError" /\ nframes = 0

\* C3: an acknowledgement arriving for a command that has already timed out is a
\* no-op: no resolution of the timed-out waiter is attempted and no exception
\* is raised in the event loop for it.
C3_LateAckIsNoOp ==
    \A c \in Calls :
        call[c].pc = "CommandTimeoutError" =>
            /\ ~ResolutionQueued(c)
            /\ ~\E e \in loop_exceptions : e.fut = c

\* C4: of two acknowledgements carrying the same messageId the second is dropped
\* without setting a result on the waiter the first one already resolved.
C4_SecondAckDropped ==
    \A e \in loop_exceptions : e.state # "RESULT"

\* C5: an acknowledgement resolves only the caller that issued its identifier:
\* every resolution handed to the loop, every result a future holds and every
\* value a caller got carries the identifier of that very call.
C5_ResolutionsNeverCross ==
    /\ \A i \in 1..Len(loop_ready) :
          loop_ready[i].op = "set_result" =>
              MessageId(loop_ready[i].arg) = call[loop_ready[i].fut].mid
    /\ \A c \in Calls :
          /\ futures[c].state = "RESULT" => MessageId(futures[c].value) = call[c].mid
          /\ call[c].pc = "returned" => futures[c].state = "RESULT"

\* two commands with distinct identifiers are outstanding, the acknowledgement
\* of one has resolved it and the other still waits
C5_Witness ==
    \E a, b \in Calls :
        /\ call[a].mid # call[b].mid
        /\ futures[a].state = "RESULT"
        /\ call[b].pc = "waiting" /\ futures[b].state = "PENDING"

\* C6: no two callers wait unresolved under the same request identifier.
C6_OneWaiterPerIdentifier ==
    \A a, b \in Calls :
        (/\ a # b
         /\ call[a].pc = "waiting" /\ futures[a].state = "PENDING"
         /\ call[b].pc = "waiting" /\ futures[b].state = "PENDING")
            => call[a].mid # call[b].mid

\* the first resolution handed to the loop for the pending call c carries payload p
FirstAck(c, p) ==
    /\ call[c].pc = "waiting"
    /\ futures[c].state = "PENDING"
    /\ \E i \in 1..Len(loop_ready) :
          /\ loop_ready[i].op = "set_result"
          /\ loop_ready[i].fut = c
          /\ DictGet(loop_ready[i].arg, PyStr("payload")) = p
          /\ \A j \in 1..(i - 1) : loop_ready[j].op # "set_result" \/ loop_ready[j].fut # c

\* C7: when a signed SETACK or GETACK arrives for a pending command before its
\* timeout, the caller eventually returns, and returns the payload of that frame.
C7_AckReturnsPayload ==
    \A c \in FairCalls : \A p \in AckPayloads :
        FirstAck(c, p) ~> (call[c].pc = "returned" /\ call[c].result = p)

\* a caller returned the ability payload its acknowledgement carried
C7_Witness ==
    \E c \in Calls :
        /\ call[c].pc = "returned"
        /\ call[c].result = PyDict(<< <<PyStr("ability"), EmptyDict>> >>)

\* C8: a command for which an ERROR frame arrived while it was pending does not
\* end with CommandTimeoutError.
C8_ErrorAckIsNotTimeout ==
    \A c \in error_acked : call[c].pc # "CommandTimeoutError"

\* the frames whose signature does not verify under the account's key
ForgedFrames ==
    {f \in Frames : ~verify_message_signature(Header(f.message), CloudKey)}

\* C9: a frame whose signature fails verification is never dispatched: handling
\* it leaves the correlation table, the futures, the callers, the loop's queue,
\* the registry and every device's state as they were.
C9_InvalidSignatureNeverDispatched ==
    [][\A f \in ForgedFrames :
          OnMessage(f)
              => UNCHANGED <<pending_messages_futures, futures, call, loop_ready,
                             loop_exceptions, transport_exceptions, registry,
                             door_open>>]_vars

\* a forged frame was rejected while a command was pending and a device enrolled
C9_Witness ==
    /\ "InvalidSignature" \in logged
    /\ nframes = 1
    /\ call[1].pc = "waiting" /\ futures[1].state = "PENDING"
    /\ Len(registry) = 1
    /\ loop_ready = <<>>

\* C10: the envelope _build_mqtt_message builds decodes back to the payload and
\* the namespace it was given, its signature is the digest of messageId, key
\* and timestamp, and it passes verification under the same key.
C10_EnvelopeRoundTrip ==
    codec.stage = "decoded" =>
        LET header == Header(codec.message)
        IN /\ DictGet(codec.message, PyStr("payload")) = codec.payload
           /\ DictGet(header, PyStr("namespace")) = NamespaceValue(codec.namespace)
           /\ DictGet(header, PyStr("messageId")) = codec.messageId
           /\ DictGet(header, PyStr("sign"))
                = Signature(codec.messageId, CloudKey, PyInt(codec.timestamp))
           /\ verify_message_signature(header, CloudKey)

\* a SET of a garage door was built and read back
C10_Witness ==
    /\ codec.stage = "decoded"
    /\ codec.method = "SET"
    /\ codec.namespace = "GARAGE_DOOR_STATE"
    /\ codec.payload # EmptyDict

\* C11: a command issued before the subscription acknowledgement was observed
\* fails fast with UnconnectedError and registers no pending call, also when
\* the transport is already connected.
C11_CommandBeforeHandshakeFailsFast ==
    [][\A c \in Calls, r \in RandomStrings, ts \in Timestamps :
          (~handshake.suback /\ ExecuteCmd(c, "GET", "SYSTEM_ABILITY", EmptyDict, r, ts))
              => /\ call'[c].pc = "UnconnectedError"
                 /\ UNCHANGED <<pending_messages_futures, futures>>]_vars

\* C12: the manager is marked initialized, and async_init has returned, only
\* after the connection was made and the subscription acknowledgement observed.
C12_ReadyOnlyAfterSubscription ==
    (initialized \/ handshake.pc = "done")
        => (handshake.subscribe_sent /\ handshake.suback)

\* async_init has returned and marked the manager initialized
C12_Witness ==
    initialized /\ handshake.pc = "done" /\ ~handshake.event

\* the verified frames of neither shape: an acknowledgement method on the user
\* topic, PUSH on the response topic, and a method that is none of the four
UnmatchedFrames ==
    {Misrouted(f) : f \in ProbeFrames} \cup CommandFrames

\* C13: a verified frame that has neither the acknowledgement shape nor the
\* push shape is discarded: handling it resolves no pending call, hands nothing
\* to the loop and changes neither the registry nor any device's state.
C13_UnmatchedFrameDiscarded ==
    [][\A f \in UnmatchedFrames :
          OnMessage(f)
              => /\ UNCHANGED <<pending_messages_futures, futures, call, loop_ready,
                                loop_exceptions, transport_exceptions, registry,
                                door_open>>
                 /\ "UnhandledFrame" \in logged']_vars

\* a frame of neither shape was discarded while a command was pending and a
\* device enrolled
C13_Witness ==
    /\ "UnhandledFrame" \in logged
    /\ nframes = 1
    /\ call[1].pc = "waiting" /\ futures[1].state = "PENDING"
    /\ Len(registry) = 1
    /\ loop_ready = <<>>

\* the callback the loop runs next delivers a push of a device that is not in
\* the registry
UnknownDevicePush ==
    /\ loop_ready # <<>>
    /\ Head(loop_ready).op = "dispatch_push"
    /\ \A d \in Enrolled : d.uuid # Head(loop_ready).uuid

\* C14: a push notification whose originating device is not in the registry is
\* dropped: _dispatch_push_notification returns False, no device's state
\* changes, nothing is enrolled and no command or discovery is started.
C14_UnknownDevicePushDropped ==
    [][(UnknownDevicePush /\ LoopRun)
          => /\ dispatch_push_notification(Head(loop_ready)).returned = FALSE
             /\ "UnknownDevicePush" \in logged'
             /\ UNCHANGED <<door_open, registry, pending_messages_futures, futures,
                            call, ncalls>>]_vars

\* the push of a device that is not enrolled was dropped while another device
\* was enrolled
C14_Witness ==
    /\ "UnknownDevicePush" \in logged
    /\ Len(registry) = 1
    /\ nframes = 1
    /\ loop_ready = <<>>
    /\ \A u \in Uuids, ch \in Channels : door_open[u][ch] = "None"

\* C15: a verified PUSH frame on the user topic is delivered to the enrolled
\* device whose uuid is the one in the frame's from header: the callback handed
\* to the loop carries that uuid, the frame's namespace and its payload, and
\* running it applies handle_push_notification to that device and leaves every
\* other device as it was.
C15_PushReachesItsDevice ==
    [][/\ \A u \in Uuids, p \in PushPayloads :
             OnMessage(DeviceFrame(ClientUserTopic, u, "R1", "PUSH",
                                   "GARAGE_DOOR_STATE", p))
                => /\ Len(loop_ready') = Len(loop_ready) + 1
                   /\ LET cb == loop_ready'[Len(loop_ready')]
                      IN /\ cb.op = "dispatch_push"
                         /\ cb.uuid = u
                         /\ parse_namespace(cb.namespace) = "GARAGE_DOOR_STATE"
                         /\ cb.data = p
       /\ (/\ loop_ready # <<>>
           /\ Head(loop_ready).op = "dispatch_push"
           /\ \E d \in Enrolled : d.uuid = Head(loop_ready).uuid
           /\ LoopRun)
             => LET cb == Head(loop_ready)
                IN /\ door_open'[cb.uuid]
                         = handle_push_notification(door_open[cb.uuid],
                               parse_namespace(cb.namespace), cb.data).state
                   /\ \A u \in Uuids \ {cb.uuid} : door_open'[u] = door_open[u]]_vars

\* both openers are enrolled, each got a push, and each shows what its own
\* push said
C15_Witness ==
    /\ Len(registry) = 2
    /\ door_open["U1"][0] = "True"
    /\ door_open["U2"][0] = "False"

\* In the registry's own specification every step is a call into the registry,
\* and api' tells which call the step was and with what argument.

\* C16: enrolling a device whose internal_id is already in the registry changes
\* nothing: the registry never holds two entries under one internal_id, an
\* enrolment appends the device only when its identifier is new, and the entry
\* an identifier has is never replaced by a later enrolment.
C16_EnrollIsIdempotent ==
    [][/\ \A i, j \in 1..Len(registry') :
             i # j => registry'[i].internal_id # registry'[j].internal_id
       /\ api'.op = "enroll_device"
             => registry' = IF ApiArg(api').internal_id \in EnrolledIds THEN registry
                            ELSE Append(registry, ApiArg(api'))
       /\ \A i \in 1..Len(registry) :
             \A j \in 1..Len(registry') :
                 registry'[j].internal_id = registry[i].internal_id
                     => registry'[j] = registry[i]]_vars

\* the opener built a second time was handed to the registry, which keeps the
\* first
C16_Witness ==
    /\ api.op = "enroll_device"
    /\ ApiArg(api) = [Device("U1") EXCEPT !.name = "garage-2"]
    /\ Device("U1") \in Enrolled
    /\ "AlreadyEnrolled" \in logged

\* C17: relinquish_device with an identifier that is not in the registry raises
\* ValueError and leaves the registry as it was.
C17_RelinquishUnknownFails ==
    [][(api'.op = "relinquish_device" /\ ApiArg(api') \notin EnrolledIds)
          => /\ api'.raised = "ValueError"
             /\ registry' = registry]_vars

\* an unknown identifier was refused while other devices were enrolled
C17_Witness ==
    /\ api.op = "relinquish_device"
    /\ api.raised = "ValueError"
    /\ ApiArg(api) \notin EnrolledIds
    /\ Len(registry) >= 2

\* C18: relinquish_device with the identifier of an enrolled device removes that
\* device and no other: the identifier is no longer in the registry and every
\* other entry is still there.
C18_RelinquishRemoves ==
    [][(api'.op = "relinquish_device" /\ ApiArg(api') \in EnrolledIds)
          => /\ api'.raised = "no"
             /\ ApiArg(api') \notin EnrolledIds'
             /\ \A d \in Enrolled : d.internal_id # ApiArg(api') => d \in Enrolled']_vars

\* device d satisfies every predicate the search q supplies
Satisfies(d, q) ==
    /\ Given(q.internal_ids) => d.internal_id \in q.internal_ids[1]
    /\ Given(q.device_uuids) => d.uuid \in q.device_uuids[1]
    /\ Given(q.device_type) => d.type = q.device_type[1]
    /\ Given(q.device_class) => q.device_class[1] \in d.classes
    /\ Given(q.device_name) => d.name = q.device_name[1]
    /\ Given(q.online_status) => online_status(d) = q.online_status[1]

\* C19: a search returns exactly the enrolled devices that satisfy all the
\* predicates supplied (all the enrolled devices when none is), each of them
\* once, and leaves the registry as it was.
C19_FindReturnsIntersection ==
    [][api'.op = "find_devices"
          => /\ registry' = registry
             /\ {ApiResult(api')[i] : i \in 1..Len(ApiResult(api'))}
                    = {d \in Enrolled : Satisfies(d, ApiArg(api'))}
             /\ Len(ApiResult(api'))
                    = Cardinality({d \in Enrolled : Satisfies(d, ApiArg(api'))})]_vars

\* a search by uuid and online status found the offline hub and its valve among
\* four enrolled devices
C19_Witness ==
    /\ api.op = "find_devices"
    /\ Given(ApiArg(api).device_uuids) /\ Given(ApiArg(api).online_status)
    /\ ~Given(ApiArg(api).device_name)
    /\ Len(ApiResult(api)) = 2
    /\ Len(registry) = 4

\* C20: lookup_base_by_uuid returns the one enrolled device with that uuid that
\* is no sub-device, None when there is no such device whatever sub-devices
\* share the uuid, and raises ValueError when there is more than one.
C20_LookupBaseByUuid ==
    api.op = "lookup_base_by_uuid" =>
        LET bases == {i \in 1..Len(registry) :
                         /\ registry[i].uuid = ApiArg(api)
                         /\ registry[i].subdevice_id = "None"}
        IN /\ Cardinality(bases) = 1 =>
                  /\ api.raised = "no"
                  /\ \E i \in bases : ApiResult(api) = Some(registry[i])
           /\ Cardinality(bases) = 0 => (api.raised = "no" /\ ApiResult(api) = None)
           /\ Cardinality(bases) > 1 => api.raised = "ValueError"

\* the hub was looked up by its uuid while its valve, which has the same uuid,
\* was enrolled too
C20_Witness ==
    /\ api.op = "lookup_base_by_uuid"
    /\ ApiArg(api) = "H1"
    /\ api.raised = "no"
    /\ \E d \in Enrolled : d.uuid = "H1" /\ d.subdevice_id = "S1"
    /\ \E d \in Enrolled : d.uuid = "H1" /\ d.subdevice_id = "None"

\* C21: register_subdevice with a sub-device whose subdevice_id the hub already
\* holds raises nothing and changes nothing: the hub keeps the sub-device first
\* registered under that key, and its dict of sub-devices is as it was.  A key
\* the hub does not hold yet is added with the sub-device given.
C21_DuplicateRegistrationIsNoOp ==
    [][api'.op = "register_subdevice"
          => /\ api'.raised = "no"
             /\ IF get_subdevice(SubdeviceId(ApiArg(api'))) # "None"
                THEN sub_devices' = sub_devices
                ELSE sub_devices' = Append(sub_devices,
                                           <<SubdeviceId(ApiArg(api')), ApiArg(api')>>)
             /\ \A i \in 1..Len(sub_devices) : sub_devices'[i] = sub_devices[i]]_vars

\* a second valve built from the identifier of a registered one was handed
\* to the hub, which kept the first
C21_Witness ==
    /\ api.op = "register_subdevice"
    /\ ApiArg(api) = "valve_again"
    /\ get_subdevice("S1") = "valve"
    /\ "AlreadyRegistered" \in logged
    /\ Len(sub_devices) > 1

\* C22: the online_status of a sub-device is OFFLINE whenever its hub's
\* status is not ONLINE, and is the sub-device's own _online when the hub is
\* ONLINE.
C22_SubordinateOfflineUnlessHubOnline ==
    \A o \in SubDevices :
        online_status(SubDeviceView(o)) =
            IF objects["hub"].online # "ONLINE" THEN "OFFLINE" ELSE objects[o].online

\* the names of the operations of a sub-device that send a command
OperationNames ==
    {"async_update", "async_turn_on", "async_turn_off", "async_set_mode",
     "async_set_target_temperature", "async_set_preset_temperature"}

\* C23: a sub-device never sends a command itself.  Whatever is published
\* while an operation of a sub-device starts is the one request of that
\* operation, published on the topic of the owning hub by the hub's
\* _execute_command, which the operation then awaits; an operation that
\* raises before its await publishes nothing; and _execute_command called on
\* the sub-device itself raises NotImplementedError and publishes nothing.
C23_CommandsGoThroughTheHub ==
    [][\A c \in Calls :
          coroutines'[c] # coroutines[c] /\ coroutines[c].pc = "idle"
             => LET co == coroutines'[c]
                IN /\ co.name = "_execute_command"
                      => co.pc = "NotImplementedError" /\ sent' = sent
                   /\ co.name \in OperationNames
                      => IF co.pc = "awaiting"
                         THEN /\ Len(sent') = Len(sent) + 1
                              /\ \A i \in 1..Len(sent) : sent'[i] = sent[i]
                              /\ LET req == Request(co.name, co.self, co.arg)
                                     published == sent'[Len(sent')]
                                 IN /\ published.topic = DeviceRequestTopic("H1")
                                    /\ published.method = req.method
                                    /\ published.namespace = req.namespace
                                    /\ published.payload = req.payload
                                    /\ published.messageId = call'[c].mid
                         ELSE sent' = sent]_vars

\* a valve was switched on: the one command published went to the hub, and
\* its acknowledgement ended the operation
C23_Witness ==
    /\ coroutines[1].name = "async_turn_on"
    /\ coroutines[1].self = "valve"
    /\ coroutines[1].pc = "done"
    /\ Len(sent) = 1
    /\ sent[1].topic = DeviceRequestTopic("H1")
    /\ sent[1].namespace = "HUB_TOGGLEX"
    /\ DictGet(objects["valve"].togglex, PyStr("onoff")) = PyInt(1)

\* the states of an answer that carry the identifier of sub-device o
StatesOf(result, o) ==
    SelectSeq(DictGet(result, PyStr("all")).v,
              LAMBDA st : DictGet(st, PyStr("id")) = PyStr(SubdeviceId(o)))

\* C24: async_update of a sub-device with identifier S publishes one GET of
\* the sub-device's all-namespace through the hub, with the payload
\* {'all': [{'id': S}]}.  When the answer arrives, the state in it whose id is S
\* is handed to the sub-device's handle_push_notification and nothing else is:
\* states of other ids are skipped, and without a state of id S the sub-device
\* is left as it was.  No other object changes.  (The answers meant are those
\* that carry a list under 'all'.)
C24_RefreshAppliesOwnStateOnly ==
    [][\A c \in Calls :
          /\ (/\ coroutines[c].pc = "idle"
              /\ coroutines'[c].name = "async_update"
              /\ coroutines'[c].pc = "awaiting")
                => /\ Len(sent') = Len(sent) + 1
                   /\ sent'[Len(sent')] =
                         [topic |-> DeviceRequestTopic("H1"),
                          messageId |-> call'[c].mid,
                          method |-> "GET",
                          namespace |-> UPDATE_ALL_NAMESPACE(coroutines'[c].self),
                          payload |-> PyDict(<< <<PyStr("all"),
                              PyList(<< PyDict(<< <<PyStr("id"),
                                  PyStr(SubdeviceId(coroutines'[c].self))>> >>) >>)>> >>)]
          /\ (/\ coroutines[c].name = "async_update"
              /\ coroutines[c].pc = "awaiting"
              /\ call'[c].pc = "returned"
              /\ DictGet(call'[c].result, PyStr("all")).t = "list")
                => LET o == coroutines[c].self
                       own == StatesOf(call'[c].result, o)
                   IN /\ objects'[o] =
                            IF own = <<>> THEN objects[o]
                            ELSE HandlePushNotification(Chain(ClassOf(o)), objects[o],
                                     UPDATE_ALL_NAMESPACE(o), own[1]).obj
                      /\ \A other \in DOMAIN objects \ {o} :
                            objects'[other] = objects[other]
                      /\ coroutines'[c].pc = "done"]_vars

\* the hub answered a refresh of the valve with the state of another
\* sub-device followed by the valve's: the valve took its own
C24_Witness ==
    /\ coroutines[1].name = "async_update"
    /\ coroutines[1].self = "valve"
    /\ coroutines[1].pc = "done"
    /\ call[1].result = AllOf(<<ValveState("S9", 1, 0), ValveState("S1", 2, 1)>>)
    /\ objects["valve"].online = "OFFLINE"
    /\ objects["valve"].togglex = PyDict(<< <<PyStr("onoff"), PyInt(1)>> >>)
    /\ sent[1].payload = IdList("all", "S1", <<>>)

\* C25: async_update of a sub-device whose class names no all-namespace
\* (_UPDATE_ALL_NAMESPACE is None) writes an error to the log and ends without
\* raising.  (The manager is taken to be connected, so that nothing else can
\* fail.)
C25_RefreshWithoutNamespaceIsLoggedOnly ==
    [][\A c \in Calls :
          (/\ connected
           /\ coroutines[c].pc = "idle"
           /\ coroutines'[c].name = "async_update"
           /\ UPDATE_ALL_NAMESPACE(coroutines'[c].self) = "None")
             => /\ "NoGetAllNamespace" \in logged'
                /\ coroutines'[c].pc \in {"awaiting", "done"}]_vars

\* the classes of the chain that take a notification of their own
HasMixin(o, class) == \E i \in 1..Len(Chain(ClassOf(o))) : Chain(ClassOf(o))[i] = class

\* C26: a SYSTEM_ONLINE notification with the data {"online": {"status": s}},
\* given to a device that has the online-status mixin, sets the device's
\* online status to the member s stands for, and handle_push_notification
\* returns True.
C26_OnlinePushSetsStatus ==
    [][\A s \in {1, 2} :
          (/\ api'.op = "handle_push_notification"
           /\ ApiArg(api')[2] = "SYSTEM_ONLINE"
           /\ ApiArg(api')[3] = OnlineData(s)
           /\ HasMixin(ApiArg(api')[1], "SystemOnlineMixin"))
             => /\ api'.raised = "no"
                /\ ApiResult(api').handled
                /\ objects'[ApiArg(api')[1]].online = OnlineStatus(PyInt(s))]_vars


\* the doors listed in the data of a GARAGE_DOOR_STATE notification
ListedDoors(data) == DictGet(data, PyStr("state")).v
ListedChannels(data) ==
    {DictGet(ListedDoors(data)[i], PyStr("channel")).v : i \in 1..Len(ListedDoors(data))}
DoorsListed(data) ==
    /\ DictGet(data, PyStr("state")).t = "list"
    /\ ListedDoors(data) # <<>>
    /\ Cardinality(ListedChannels(data)) = Len(ListedDoors(data))

\* C27: after a GARAGE_DOOR_STATE notification whose data list the doors
\* {channel: c, open: o} of distinct channels, is_open(c) is (o = 1) for
\* every channel listed, the state recorded for the channels not listed is
\* what it was, and handle_push_notification returns True.
C27_DoorPushSetsListedChannels ==
    [][\A n \in Notifications :
          (/\ api'.op = "handle_push_notification"
           /\ n[1] = "GARAGE_DOOR_STATE"
           /\ ApiArg(api')[2] = n[1]
           /\ ApiArg(api')[3] = n[2]
           /\ HasMixin(ApiArg(api')[1], "GarageOpenerMixin")
           /\ DoorsListed(n[2]))
             => /\ api'.raised = "no"
                /\ ApiResult(api').handled
                /\ \A i \in 1..Len(ListedDoors(n[2])) :
                      is_open(objects'[ApiArg(api')[1]],
                              DictGet(ListedDoors(n[2])[i], PyStr("channel")).v)
                        = IF DictGet(ListedDoors(n[2])[i], PyStr("open")) = PyInt(1)
                          THEN "True" ELSE "False"
                /\ \A ch \in Channels \ ListedChannels(n[2]) :
                      is_open(objects'[ApiArg(api')[1]], ch)
                        = is_open(objects[ApiArg(api')[1]], ch)]_vars

\* an opener has been told about both of its doors: channel 0 closed,
\* channel 1 open
C27_Witness ==
    /\ api.op = "handle_push_notification"
    /\ ApiArg(api) = <<"opener", "GARAGE_DOOR_STATE", DoorStates(<<Door(0, 0), Door(1, 1)>>)>>
    /\ api.raised = "no"
    /\ is_open(objects["opener"], 0) = "False"
    /\ is_open(objects["opener"], 1) = "True"


\* the channels of a device that match an index or a name
MatchingChannels(self, a) ==
    {i \in 1..Len(self.channels) :
        \/ a.t = "int" /\ self.channels[i].index = a.v
        \/ a.t = "str" /\ self.channels[i].name = a}

\* C28: lookup_channel returns a channel only when exactly one channel has
\* the given index or name, and then it returns that channel; when no
\* channel or more than one channel matches, it raises ValueError.
C28_LookupNeedsExactlyOneMatch ==
    [][api'.op = "lookup_channel"
         => IF Cardinality(MatchingChannels(objects[ApiArg(api')[1]], ApiArg(api')[2])) = 1
            THEN /\ api'.raised = "no"
                 /\ \E i \in MatchingChannels(objects[ApiArg(api')[1]], ApiArg(api')[2]) :
                       ApiResult(api') = objects[ApiArg(api')[1]].channels[i]
            ELSE api'.raised = "ValueError"]_vars

\* two channels are called "Main" and a lookup of "Main" has raised
C28_Witness ==
    /\ api.op = "lookup_channel"
    /\ ApiArg(api) = <<"plug", PyStr("Main")>>
    /\ Cardinality(MatchingChannels(objects["plug"], PyStr("Main"))) = 2
    /\ api.raised = "ValueError"


\* C29: whatever the device and the notification, handle_push_notification
\* goes through every class of the chain down to the base class and raises
\* nothing, and it returns True exactly when one of the classes handled the
\* notification.
C29_EveryLinkIsInvoked ==
    [][api'.op = "handle_push_notification"
         => /\ api'.raised = "no"
            /\ ApiResult(api').visited = Chain(ClassOf(ApiArg(api')[1]))
            /\ ApiResult(api').handled
                 = \E i \in 1..Len(Chain(ClassOf(ApiArg(api')[1]))) :
                      LocalPart(Chain(ClassOf(ApiArg(api')[1]))[i], objects[ApiArg(api')[1]],
                                ApiArg(api')[2], ApiArg(api')[3]).handled]_vars


\* the sub-device of a task is registered on its hub and enrolled
Subordinate(task) == build_meross_subdevice(task.sd, task.hub)
RegisteredAndEnrolled(task) ==
    /\ Subordinate(task).subdevice_id \in RegisteredOn(task.hub)
    /\ Subordinate(task).internal_id \in EnrolledIds

\* C30: in async_device_discovery the hubs are refreshed (async_update) only
\* when every task created to enroll a sub-device has completed, so that
\* every such sub-device is registered on its hub and enrolled in the
\* registry.  The tasks are those that exist when the refresh is issued.
C30_RefreshAfterSubdeviceEnrollment ==
    [][discovery'.updated # discovery.updated
         => (\A j \in 1..Len(discovery.subdevtasks) :
                /\ discovery.subdevtasks[j].state = "done"
                /\ RegisteredAndEnrolled(discovery.subdevtasks[j]))']_vars

\* two hubs were refreshed after the last of them had listed two sub-devices
C30_Witness ==
    /\ Len(discovery.updated) = 2
    /\ Len(discovery.subdevtasks) >= 2
    /\ discovery.subdevtasks[Len(discovery.subdevtasks)].hub = discovery.updated[2]
    /\ \A j \in 1..Len(discovery.subdevtasks) : discovery.subdevtasks[j].state = "done"


\* the handler found a connection drop and auto_reconnect not set
StoppedOnDrop == handshake.rc = "MQTT_ERR_CONN_LOST" /\ ~handshake.auto_reconnect

ValveCommands ==
    {"async_turn_on", "async_turn_off", "async_set_mode", "async_set_target_temperature",
     "async_set_preset_temperature"}

\* C32: an operation of a valve that sends a command changes the valve's
\* local state only in the step in which the command returns its
\* acknowledgement; when the command ends with CommandTimeoutError or
\* CommandError the state is what it was before the operation.
C32_UpdateOnlyAfterAcknowledgement ==
    [][\A c \in Calls :
          (/\ c \in DOMAIN coroutines'
           /\ coroutines'[c].name \in ValveCommands
           /\ ~(coroutines[c].pc = "awaiting" /\ call'[c].pc = "returned"))
             => /\ objects'[coroutines'[c].self] = objects[coroutines'[c].self]
                /\ coroutines'[c].pc # "done" \/ coroutines[c].pc = "done"]_vars

\* switching a valve on has timed out and the valve is not on
C32_Witness ==
    /\ coroutines[1].name = "async_turn_on"
    /\ coroutines[1].self = "valve"
    /\ coroutines[1].pc = "CommandTimeoutError"
    /\ DictGet(objects["valve"].togglex, PyStr("onoff")) = PyNone


\* C33: whatever frames are delivered, no exception escapes _on_message in
\* the mqtt thread and none is raised by a callback or by the dispatch task
\* in the event loop.
C33_NoFrameRaises ==
    transport_exceptions = {} /\ loop_exceptions = {}


\* C34: however many times async_init is called, the broker is connected to
\* once, and every call after the first raises RuntimeError.
C34_InitTakesEffectOnce ==
    /\ handshake.connects <= 1
    /\ \A i \in 1..Len(handshake.others) : handshake.others[i] = "RuntimeError"


\* C35: a discovery whose HTTP listing names a device that is already
\* enrolled updates that device and goes on; it never ends with the exception
\* of update_from_http_state.
C35_EnrolledDeviceIsUpdated == discovery.raised # "Exception"

\* the hubs in the registry
EnrolledHubs == {d \in Enrolled : "HubDevice" \in d.classes}

\* C36: when a discovery run has ended, the sub-devices of every hub in the
\* registry were fetched by it, the hubs enrolled before the run included.
C36_EveryHubIsHandled ==
    discovery.pc \in {"done", "raised"} /\ discovery.raised \in {"no", "Exception"}
        => \A h \in EnrolledHubs : \E k \in 1..Len(discovery.hubs) : discovery.hubs[k] = h.uuid

\* C37: a device task whose ability query found no usable answer (a timeout,
\* possibly after an ERROR answer) returns without enrolling its device and
\* without raising, so discovery is not ended by it, and every task whose
\* query succeeded has enrolled its device.
C37_FailedQueryDoesNotAbortDiscovery ==
    /\ \A i \in 1..Len(discovery.tasks) :
          /\ discovery.tasks[i].outcome = "CommandTimeoutError"
                => /\ discovery.tasks[i].state \in {"waiting", "returned_none"}
                   /\ InternalId(discovery.tasks[i].hdevice.uuid) \notin EnrolledIds
          /\ discovery.tasks[i].state = "raised"
                => discovery.tasks[i].outcome = "UnconnectedError"
          /\ discovery.tasks[i].state = "returned"
                => InternalId(discovery.tasks[i].hdevice.uuid) \in EnrolledIds
    /\ discovery.raised \in {"no", "Exception", "UnconnectedError"}

\* discovery ran to its end although one device answered with ERROR and its
\* query timed out, and the other device, which answered, is enrolled
C37_Witness ==
    /\ discovery.pc = "done"
    /\ "AttributeError" \in transport_exceptions
    /\ \E i, j \in 1..Len(discovery.tasks) :
          /\ discovery.tasks[i].state = "returned_none"
          /\ discovery.tasks[j].state = "returned"
          /\ InternalId(discovery.tasks[j].hdevice.uuid) \in EnrolledIds


\* the latest sample time a sensor holds
LatestSampleTime(obj) == DictGet(obj.temperature, PyStr("latestSampleTime"))

\* C38: no HUB_SENSOR_TEMPHUM notification makes the latest sample time of an
\* Ms100Sensor go back.
C38_SampleTimeNeverDecreases ==
    [][\A o \in DOMAIN objects :
          /\ ClassOf(o) = "Ms100Sensor"
          /\ api'.op = "handle_push_notification"
          /\ ApiArg(api')[2] = "HUB_SENSOR_TEMPHUM"
          /\ LatestSampleTime(objects[o]) # PyNone
          => /\ LatestSampleTime(objects'[o]) # PyNone
             /\ LatestSampleTime(objects'[o]).v >= LatestSampleTime(objects[o]).v]_vars


\* C39: the registry holds one device per internal_id, the internal_id of a
\* device that is no sub-device is made of its uuid alone, and so no uuid
\* belongs to two such devices: lookup_base_by_uuid never raises ValueError.
C39_OneBaseDevicePerUuid ==
    /\ \A i, j \in 1..Len(registry) :
          registry[i].internal_id = registry[j].internal_id => i = j
    /\ \A d \in Enrolled :
          "GenericSubDevice" \notin d.classes => d.internal_id = InternalId(d.uuid)
    /\ \A u \in Uuids \cup HubUuids : lookup_base_by_uuid(u).raised = "no"
    /\ api.op = "lookup_base_by_uuid" => api.raised = "no"

\* a second object for an enrolled uuid was refused, and the uuid was looked
\* up and found while a hub and its sub-device were enrolled as well
C39_Witness ==
    /\ "AlreadyEnrolled" \in logged
    /\ Len(registry) >= 3
    /\ api.op = "lookup_base_by_uuid"
    /\ ApiArg(api) = "U1"
    /\ ApiResult(api) # None


\* the sub-devices in the registry, and what the hub of a sub-device returns
\* from get_subdevice for the sub-device's identifier
EnrolledSubdevices == {d \in Enrolled : "GenericSubDevice" \in d.classes}
HeldByHub(d) ==
    {sub_devices[i][2] :
        i \in {n \in 1..Len(sub_devices) : /\ sub_devices[n][1] = d.subdevice_id
                                           /\ sub_devices[n][2].uuid = d.uuid}}

\* C40: every sub-device in the registry is the object its hub holds under
\* the sub-device's identifier, and every sub-device a hub holds is in the
\* registry.
C40_HubAndRegistryAgree ==
    /\ \A d \in EnrolledSubdevices : HeldByHub(d) = {d}
    /\ \A i \in 1..Len(sub_devices) : sub_devices[i][2] \in EnrolledSubdevices

\* a sub-device was enrolled a second time, from a listing that gave it
\* another name, and hub and registry hold the object built first
C40_Witness ==
    /\ {"AlreadyRegistered", "AlreadyEnrolled"} \subseteq logged
    /\ \E j \in 1..Len(discovery.subdevtasks) :
          /\ discovery.subdevtasks[j].state = "done"
          /\ Subordinate(discovery.subdevtasks[j]) \notin Enrolled
          /\ Subordinate(discovery.subdevtasks[j]).internal_id \in EnrolledIds

====
